---- MODULE Spec2Model ----
(***************************************************************************)
(* Model of the trace debug tool (`lambda trace`): the trace files written *)
(* by the test runner, the context builder (parseTrace), the summary       *)
(* command and the diagnostic engine (getDiagnoseResults).                 *)
(*                                                                         *)
(* A text is a sequence of fragments (the pieces of a line that the        *)
(* program's regular expressions and substring tests look at).  A regular  *)
(* expression is a set of alternatives, each a sequence of literal         *)
(* fragments separated by `.*`; it matches a text when the fragments of    *)
(* one alternative occur in the text in that order.                        *)
(***************************************************************************)
EXTENDS Integers, Sequences, FiniteSets, TLC

\* The trace files, the context built from them and the reports on it.
VARIABLES now, shards, testTrace, errorContextFile, pc, ctx, summaryOut,
          issues, uniqueIssues, report

\* parseJsonlFile: the lines of the file read, the events returned and the
\* warnings written to stderr.
VARIABLES content, jsonl, stderr, parserPc

traceVars == <<now, shards, testTrace, errorContextFile, pc, ctx, summaryOut,
               issues, uniqueIssues, report>>
parserVars == <<content, jsonl, stderr, parserPc>>

\* unzipTrace: the archive trace.zip, its cache directory unzipped/, the
\* invocations of the tool on the archive, and the archive mtime at the end
\* of the last extraction.
VARIABLES archive, unzipped, inv, extractedAt

loaderVars == <<archive, unzipped, inv, extractedAt>>

\* diagnose-all: the directories under test-results/, and what a run of the
\* command printed and counted.
VARIABLES testResults, batch

batchVars == <<testResults, batch>>

\* runTraceCommand: the arguments of a process, what it wrote to stdout and
\* stderr, and its exit code.
VARIABLES cli

cliVars == <<cli>>

\* The report projections: the arguments of a query on the built context
\* and its result.
VARIABLES query, result

projectionVars == <<query, result>>

\* The tmux pane commands: a process of `lambda await`; a process of
\* `lambda tmux <pane> wait`, the receipt files of the pane and the wall
\* clock (ms).
VARIABLES awaiting, waiting, receipts, wallClock

waitVars == <<waiting, receipts, wallClock>>

\* `lambda tasks`: the task lines of TASKS.md and a process of `tasks next`.
VARIABLES tasks, ship

shipVars == <<tasks, ship>>
paneVars == <<awaiting, waitVars, shipVars>>

\* Everything outside the trace files, their context and its reports.
toolVars == <<parserVars, loaderVars, batchVars, cliVars, projectionVars,
              paneVars>>

\* What the actions on one group of variables leave alone.
exceptParser == <<traceVars, loaderVars, batchVars, cliVars, projectionVars,
                  paneVars>>
exceptLoader == <<traceVars, parserVars, batchVars, cliVars, projectionVars,
                  paneVars>>
exceptBatch == <<traceVars, parserVars, loaderVars, cliVars, projectionVars,
                 paneVars>>
exceptCli == <<traceVars, parserVars, loaderVars, projectionVars, paneVars>>
exceptProjection == <<parserVars, loaderVars, batchVars, cliVars, paneVars>>
exceptPane == <<traceVars, parserVars, loaderVars, batchVars, cliVars,
                projectionVars>>
exceptAwait == <<exceptPane, waitVars, shipVars>>
exceptWait == <<exceptPane, awaiting, shipVars>>
exceptShip == <<exceptPane, awaiting, waitVars>>

vars == <<traceVars, toolVars>>

(***************************************************************************)
(* Bounds                                                                  *)
(***************************************************************************)
\* Total number of events the recorder writes to the trace files.
MaxEvents == 3

\* The values the recorder's monotonic clock takes, in order (ms).
ClockValues == <<0, 999, 1000>>

\* The shard files "<n>-trace.trace", in ascending filename order.
traceFiles == <<0, 1>>

(***************************************************************************)
(* Values standing for JavaScript's undefined                              *)
(***************************************************************************)
NoTime == -1
NoText == <<>>

(***************************************************************************)
(* Texts                                                                   *)
(***************************************************************************)
\* String.prototype.includes: case-sensitive containment of a literal.
includes(text, literal) == \E i \in 1..Len(text) : text[i] = literal

\* Case folding of the /i flag, on the fragments the model uses.
Lower(fragment) ==
  CASE fragment = "Timed out" -> "timed out"
    [] fragment = "Sentry" -> "sentry"
    [] fragment = "ECONNREFUSED" -> "econnrefused"
    [] OTHER -> fragment

RECURSIVE FragmentsInOrder(_, _)
FragmentsInOrder(alternative, text) ==
  IF alternative = <<>> THEN TRUE
  ELSE IF text = <<>> THEN FALSE
  ELSE IF Lower(Head(text)) = Head(alternative)
       THEN FragmentsInOrder(Tail(alternative), Tail(text))
       ELSE FragmentsInOrder(alternative, Tail(text))

\* RegExp.prototype.test for a case-insensitive pattern.
RegexTest(pattern, text) ==
  \E alternative \in pattern : FragmentsInOrder(alternative, text)

(***************************************************************************)
(* Trace events (one record shape for every kind; unused fields are empty) *)
(***************************************************************************)
Event(type, time, callId, apiName, text, url) ==
  [type |-> type, time |-> time, callId |-> callId, apiName |-> apiName,
   text |-> text, url |-> url]

\* An event as the recorder is about to write it: the time is stamped when
\* it is written.
Stamp(template, time) == [template EXCEPT !.time = time]

BeforeEvent(callId, apiName) ==
  Event("before", NoTime, callId, apiName, NoText, NoText)
AfterEvent(callId, error) == Event("after", NoTime, callId, "", error, NoText)
ScreencastFrameEvent ==
  Event("screencast-frame", NoTime, "", "", NoText, NoText)
LogEvent == Event("log", NoTime, "", "", <<"navigating">>, NoText)
\* The first line of a shard; time is monotonicTime.
ContextOptionsEvent == Event("context-options", NoTime, "", "", NoText, NoText)
\* url is location.url (NoText when the message has no location).
ConsoleEvent(text, url) == Event("console", NoTime, "", "", text, url)
\* An event of type "event" and method "pageError"; text is
\* params.error.error.message.
PageErrorEvent(message) == Event("pageError", NoTime, "", "", message, NoText)
StdoutEvent(text) == Event("stdout", NoTime, "", "", text, NoText)
StderrEvent(text) == Event("stderr", NoTime, "", "", text, NoText)
\* Runner "error" events carry a message and no timestamp.
TestErrorEvent(message) == Event("error", NoTime, "", "", message, NoText)

NoErrorContextFile ==
  [exists |-> FALSE, hasErrorDetails |-> FALSE, errorMessage |-> NoText]
ErrorContextFile(hasErrorDetails, errorMessage) ==
  [exists |-> TRUE, hasErrorDetails |-> hasErrorDetails,
   errorMessage |-> errorMessage]

(***************************************************************************)
(* Context builder                                                         *)
(***************************************************************************)
RECURSIVE flatMap(_, _)
flatMap(files, names) ==
  IF names = <<>> THEN <<>>
  ELSE files[Head(names)] \o flatMap(files, Tail(names))

\* The shard event lists concatenated in ascending filename order.
browserTrace == flatMap(shards, traceFiles)

keyActions ==
  {"page.goto", "page.click", "locator.click", "locator.fill", "locator.type",
   "locator.press", "page.fill", "page.type", "expect.toHaveValue",
   "expect.toBeVisible", "expect.toHaveText", "expect.toHaveURL",
   "expect.toHaveTitle", "expect.not.toBeVisible"}

isKeyAction(apiName) == apiName \in keyActions

filter(events, type) == SelectSeq(events, LAMBDA e : e.type = type)

RECURSIVE afterMapGet(_, _)
\* new Map(afterEvents.map(e => [e.callId, e])).get(callId): a later entry
\* with the same key replaces an earlier one.  <<>> stands for undefined.
afterMapGet(afterEvents, callId) ==
  IF afterEvents = <<>> THEN <<>>
  ELSE LET last == afterEvents[Len(afterEvents)] IN
       IF last.callId = callId THEN <<last>>
       ELSE afterMapGet(SubSeq(afterEvents, 1, Len(afterEvents) - 1), callId)

Action(before, after) ==
  [callId |-> before.callId, startTime |-> before.time,
   apiName |-> before.apiName,
   endTime |-> IF after = <<>> THEN NoTime ELSE after[1].time,
   error |-> IF after = <<>> THEN NoText ELSE after[1].text]

\* Variant: only action-starts that have an action-end become Actions.
mergeActionsCompletedOnly(events) ==
  LET beforeEvents == filter(events, "before")
      afterEvents == filter(events, "after")
      kept == SelectSeq(beforeEvents,
                        LAMBDA e : /\ isKeyAction(e.apiName)
                                   /\ afterMapGet(afterEvents, e.callId) # <<>>)
  IN [i \in 1..Len(kept) |-> Action(kept[i], afterMapGet(afterEvents, kept[i].callId))]

mergeActions(events) ==
  LET beforeEvents == filter(events, "before")
      afterEvents == filter(events, "after")
      kept == SelectSeq(beforeEvents, LAMBDA e : isKeyAction(e.apiName))
  IN [i \in 1..Len(kept) |-> Action(kept[i], afterMapGet(afterEvents, kept[i].callId))]

isAssertionOutput(event) ==
  /\ event.type \in {"stdout", "stderr"}
  /\ (includes(event.text, "Error:") \/ includes(event.text, "Expected"))

\* testTrace.find(...): the first runner event that looks like an assertion
\* failure; <<>> stands for undefined.
RECURSIVE findAssertionError(_)
findAssertionError(events) ==
  IF events = <<>> THEN <<>>
  ELSE IF isAssertionOutput(Head(events)) THEN <<Head(events)>>
  ELSE findAssertionError(Tail(events))

\* Variant: the page error is consulted before the runner output.
statusInfoPageErrorFirst(assertionError, errors) ==
  IF errors # <<>>
  THEN [status |-> "failed", errorMessage |-> errors[1].text,
        errorTime |-> errors[1].time]
  ELSE IF assertionError # <<>>
  THEN [status |-> "failed", errorMessage |-> assertionError[1].text,
        errorTime |-> assertionError[1].time]
  ELSE [status |-> "passed", errorMessage |-> NoText, errorTime |-> NoTime]

statusInfo(assertionError, errors) ==
  IF assertionError # <<>>
  THEN [status |-> "failed", errorMessage |-> assertionError[1].text,
        errorTime |-> assertionError[1].time]
  ELSE IF errors # <<>>
  THEN [status |-> "failed", errorMessage |-> errors[1].text,
        errorTime |-> errors[1].time]
  ELSE [status |-> "passed", errorMessage |-> NoText, errorTime |-> NoTime]

\* endTime - startTime.  startTime is the monotonicTime of the first
\* context-options event, or 0; endTime is the first truthy one of the
\* startTime, endTime and timestamp fields of the last event (a before, an
\* after or a screencast-frame event carries one of them; any other event
\* carries none), or startTime.
durationOf(events) ==
  LET contextOptions == filter(events, "context-options")
      startTime == IF contextOptions = <<>> \/ contextOptions[1].time = 0
                   THEN 0 ELSE contextOptions[1].time
      lastEvent == events[Len(events)]
      endTime == IF /\ events # <<>>
                    /\ lastEvent.type \in {"before", "after", "screencast-frame"}
                    /\ lastEvent.time # 0
                 THEN lastEvent.time ELSE startTime
  IN endTime - startTime

parseTrace(runnerEvents, events) ==
  LET errors == filter(events, "pageError")
      info == statusInfo(findAssertionError(runnerEvents), errors)
  IN [duration |-> durationOf(events),
      status |-> info.status,
      errorTime |-> info.errorTime,
      errorMessage |-> info.errorMessage,
      screenshots |-> filter(events, "screencast-frame"),
      consoleMessages |-> filter(events, "console"),
      errors |-> errors,
      actions |-> mergeActions(events),
      logs |-> filter(events, "log")]

NoContext ==
  [duration |-> 0, status |-> "unknown", errorTime |-> NoTime, errorMessage |-> NoText,
   screenshots |-> <<>>, consoleMessages |-> <<>>, errors |-> <<>>,
   actions |-> <<>>, logs |-> <<>>]

(***************************************************************************)
(* Error-context document and the summary command                          *)
(***************************************************************************)
\* <<>> stands for null.
loadErrorContext(file) ==
  IF ~file.exists THEN <<>>
  ELSE IF ~file.hasErrorDetails THEN <<>>
  ELSE <<[errorMessage |-> IF file.errorMessage = NoText
                           THEN <<"Unknown error">>
                           ELSE file.errorMessage]>>

commandSummary(context, file) ==
  LET errorContext == loadErrorContext(file) IN
  [status |-> IF errorContext # <<>> THEN "failed" ELSE context.status,
   errorTime |-> context.errorTime,
   errorMessage |-> IF errorContext # <<>> THEN errorContext[1].errorMessage
                    ELSE context.errorMessage,
   counts |-> [screenshots |-> Len(context.screenshots),
               consoleMessages |-> Len(context.consoleMessages),
               errors |-> Len(context.errors),
               actions |-> Len(context.actions)]]

NoSummary ==
  [status |-> "none", errorTime |-> NoTime, errorMessage |-> NoText,
   counts |-> [screenshots |-> 0, consoleMessages |-> 0, errors |-> 0,
               actions |-> 0]]


(***************************************************************************)
(* Diagnostic engine                                                       *)
(***************************************************************************)
\* The signature table.  Explanations and solutions are abbreviated to a few
\* words each; they stay distinct per signature.
errorPatterns ==
  << [pattern |-> {<<"timed out", "waiting for">>},
      category |-> "Timeout",
      explanation |-> "wait timed out",
      solution |-> "check screenshots"],
     [pattern |-> {<<"element", "not found">>, <<"locator", "not found">>},
      category |-> "Element Not Found",
      explanation |-> "no element matched",
      solution |-> "verify selector"],
     [pattern |-> {<<"navigation", "failed">>, <<"net::err_">>},
      category |-> "Navigation Error",
      explanation |-> "navigation failed",
      solution |-> "check URL"],
     [pattern |-> {<<"console.error">>, <<"uncaught error">>, <<"unhandled promise">>},
      category |-> "Console Error",
      explanation |-> "JavaScript error",
      solution |-> "check stack trace"],
     [pattern |-> {<<"status of 4dd">>},
      category |-> "HTTP 4xx Error",
      explanation |-> "client error",
      solution |-> "check status code"],
     [pattern |-> {<<"status of 5dd">>},
      category |-> "HTTP 5xx Error",
      explanation |-> "server error",
      solution |-> "check server logs"],
     [pattern |-> {<<"econnrefused">>, <<"etimedout">>},
      category |-> "Connection Error",
      explanation |-> "connect failed",
      solution |-> "verify services"],
     [pattern |-> {<<"strict mode violation">>, <<"multiple elements">>},
      category |-> "Strict Mode Violation",
      explanation |-> "multiple matches",
      solution |-> "narrow selector"],
     [pattern |-> {<<"frame", "detached">>, <<"frame", "navigated">>},
      category |-> "Frame Detached",
      explanation |-> "frame removed",
      solution |-> "wait for frame"],
     [pattern |-> {<<"dialog", "not handled">>, <<"unexpected dialog">>},
      category |-> "Unhandled Dialog",
      explanation |-> "dialog not handled",
      solution |-> "add dialog handler"] >>

ignorePatterns == << {<<"sentry">>}, {<<"ingest.", "sentry">>} >>

\* `${text} ${location || ""}` tested against every ignore pattern.
shouldIgnore(text, location) ==
  LET combined == text \o location IN
  \E i \in 1..Len(ignorePatterns) : RegexTest(ignorePatterns[i], combined)

RECURSIVE findFrom(_, _)
findFrom(i, text) ==
  IF i > Len(errorPatterns) THEN <<>>
  ELSE IF RegexTest(errorPatterns[i].pattern, text) THEN <<errorPatterns[i]>>
  ELSE findFrom(i + 1, text)

RECURSIVE findLastFrom(_, _)
findLastFrom(i, text) ==
  IF i < 1 THEN <<>>
  ELSE IF RegexTest(errorPatterns[i].pattern, text) THEN <<errorPatterns[i]>>
  ELSE findLastFrom(i - 1, text)

\* Variant: the last matching signature labels the text.
findLastPatternInfo(text) == findLastFrom(Len(errorPatterns), text)

\* errorPatterns.find(p => p.pattern.test(text)); <<>> stands for undefined.
findPatternInfo(text) == findFrom(1, text)

Issue(patternInfo, timestamp, source, text) ==
  [category |-> patternInfo.category, timestamp |-> timestamp,
   source |-> source, text |-> text,
   explanation |-> patternInfo.explanation,
   solution |-> patternInfo.solution, recovered |-> FALSE]

\* Variant: a signal that matches no signature is reported under the
\* fallback category.
issueOfOrFallback(timestamp, source, text) ==
  LET patternInfo == findPatternInfo(text) IN
  <<Issue(IF patternInfo = <<>>
          THEN [category |-> "Test Assertion Failed",
                explanation |-> "assertion failed",
                solution |-> "check UI state"]
          ELSE patternInfo[1],
          timestamp, source, text)>>

\* A signal contributes the issue of its first matching signature, if any.
issueOf(timestamp, source, text) ==
  LET patternInfo == findPatternInfo(text) IN
  IF patternInfo = <<>> THEN <<>>
  ELSE <<Issue(patternInfo[1], timestamp, source, text)>>

consoleIssue(msg) ==
  IF shouldIgnore(msg.text, msg.url) THEN <<>>
  ELSE issueOf(msg.time, "console", msg.text)

pageErrorIssue(error) == issueOf(error.time, "pageError", error.text)

testTraceIssue(event) ==
  IF event.type \in {"stdout", "stderr"}
  THEN issueOf(event.time, "testOutput", event.text)
  ELSE IF event.type = "error" /\ event.text # NoText
  THEN issueOf(0, "testOutput", event.text)
  ELSE <<>>

assertionFallback ==
  [category |-> "Test Assertion Failed",
   explanation |-> "assertion failed",
   solution |-> "check UI state"]

errorContextIssue(file) ==
  LET errorContext == loadErrorContext(file) IN
  IF errorContext = <<>> THEN <<>>
  ELSE LET errorPatternInfo == findPatternInfo(errorContext[1].errorMessage) IN
       <<Issue(IF errorPatternInfo = <<>> THEN assertionFallback
               ELSE errorPatternInfo[1],
               0, "testOutput", errorContext[1].errorMessage)>>

RECURSIVE flatten(_)
flatten(lists) ==
  IF lists = <<>> THEN <<>> ELSE Head(lists) \o flatten(Tail(lists))

\* issues as the four scans and the error-context check push them.
foundIssues(context, runnerEvents, file) ==
  flatten([i \in 1..Len(context.consoleMessages) |->
             consoleIssue(context.consoleMessages[i])])
  \o flatten([i \in 1..Len(context.errors) |->
                pageErrorIssue(context.errors[i])])
  \o flatten([i \in 1..Len(runnerEvents) |-> testTraceIssue(runnerEvents[i])])
  \o errorContextIssue(file)

RECURSIVE insertByTimestamp(_, _)
\* Insertion after every element that does not compare greater (stable).
insertByTimestamp(sorted, issue) ==
  IF sorted = <<>> THEN <<issue>>
  ELSE IF Head(sorted).timestamp - issue.timestamp > 0
       THEN <<issue>> \o sorted
       ELSE <<Head(sorted)>> \o insertByTimestamp(Tail(sorted), issue)

\* Variant: the issues stay in scan order.
sortSkipped(list) == list

RECURSIVE sortByTimestamp(_)
\* issues.sort((a, b) => a.timestamp - b.timestamp), a stable sort.
sortByTimestamp(list) ==
  IF list = <<>> THEN <<>>
  ELSE insertByTimestamp(sortByTimestamp(SubSeq(list, 1, Len(list) - 1)),
                         list[Len(list)])

abs(n) == IF n < 0 THEN -n ELSE n

\* Variant: only issues of the same instant count as duplicates.
isDuplicateSameInstant(acc, issue) ==
  \E i \in 1..Len(acc) :
    /\ acc[i].category = issue.category
    /\ acc[i].timestamp = issue.timestamp

isDuplicate(acc, issue) ==
  \E i \in 1..Len(acc) :
    /\ acc[i].category = issue.category
    /\ abs(acc[i].timestamp - issue.timestamp) < 1000

RECURSIVE deduplicate(_, _)
\* issues.reduce((acc, issue) => isDuplicate ? acc : [...acc, issue], [])
deduplicate(acc, list) ==
  IF list = <<>> THEN acc
  ELSE deduplicate(IF isDuplicate(acc, Head(list)) THEN acc
                   ELSE Append(acc, Head(list)), Tail(list))

criticalCategories == {"Test Assertion Failed", "HTTP 5xx Error"}

\* Variant: only the issues that fit the report's list are counted.
byCategoryOfShown(list) ==
  [c \in {list[i].category : i \in 1..Len(list)} |->
     Cardinality({i \in 1..Len(list) : i <= 10 /\ list[i].category = c})]

byCategoryOf(list) ==
  [c \in {list[i].category : i \in 1..Len(list)} |->
     Cardinality({i \in 1..Len(list) : list[i].category = c})]

RECURSIVE findCritical(_)
findCritical(list) ==
  IF list = <<>> THEN <<>>
  ELSE IF ~Head(list).recovered /\ Head(list).category \in criticalCategories
       THEN <<Head(list)>>
       ELSE findCritical(Tail(list))

\* Variant: the first active issue is primary, critical or not.
primaryDiagnosisFirstIssue(activeIssues, recoveredIssues) ==
  IF activeIssues = <<>>
  THEN [explanation |-> "no known patterns",
        recommendation |-> "trace looks clean",
        recoveredHidden |-> Len(recoveredIssues)]
  ELSE [explanation |-> activeIssues[1].explanation,
        recommendation |-> activeIssues[1].solution,
        recoveredHidden |-> 0]

primaryDiagnosisOf(activeIssues, recoveredIssues) ==
  IF activeIssues = <<>>
  THEN [explanation |-> "no known patterns",
        recommendation |-> "trace looks clean",
        recoveredHidden |-> Len(recoveredIssues)]
  ELSE LET criticalIssue == findCritical(activeIssues)
           primaryIssue == IF criticalIssue # <<>> THEN criticalIssue[1]
                           ELSE activeIssues[1]
       IN [explanation |-> primaryIssue.explanation,
           recommendation |-> primaryIssue.solution,
           recoveredHidden |-> 0]

summaryOf(nonRecoveredIssues, recoveredIssues, hasCritical) ==
  [headline |-> IF nonRecoveredIssues = <<>>
                THEN "no patterns"
                ELSE IF hasCritical THEN "critical"
                ELSE "potential",
   count |-> Len(nonRecoveredIssues),
   recovered |-> Len(recoveredIssues)]

reportIssue(issue) ==
  [category |-> issue.category, timestamp |-> issue.timestamp,
   source |-> issue.source, explanation |-> issue.explanation,
   solution |-> issue.solution, snippet |-> issue.text,
   recovered |-> issue.recovered]

\* The part of getDiagnoseResults after deduplication.
diagnoseResults(unique, verbose) ==
  LET recoveredIssues == SelectSeq(unique, LAMBDA i : i.recovered)
      nonRecoveredIssues == SelectSeq(unique, LAMBDA i : ~i.recovered)
      activeIssues == IF verbose THEN unique ELSE nonRecoveredIssues
      byCategory == byCategoryOf(nonRecoveredIssues)
      hasCritical == \E c \in criticalCategories : c \in DOMAIN byCategory
      shown == SubSeq(activeIssues, 1, IF Len(activeIssues) < 10
                                       THEN Len(activeIssues) ELSE 10)
  IN [summary |-> summaryOf(nonRecoveredIssues, recoveredIssues, hasCritical),
      issueCount |-> Len(nonRecoveredIssues),
      recoveredCount |-> Len(recoveredIssues),
      byCategory |-> byCategory,
      primaryDiagnosis |-> primaryDiagnosisOf(activeIssues, recoveredIssues),
      issues |-> [i \in 1..Len(shown) |-> reportIssue(shown[i])]]

NoReport ==
  [summary |-> [headline |-> "none", count |-> 0, recovered |-> 0],
   issueCount |-> 0, recoveredCount |-> 0, byCategory |-> <<>>,
   primaryDiagnosis |-> [explanation |-> "", recommendation |-> "",
                         recoveredHidden |-> 0],
   issues |-> <<>>]

(***************************************************************************)
(* State machine                                                           *)
(***************************************************************************)
Init ==
  /\ now = 1
  /\ shards = [n \in {0, 1} |-> <<>>]
  /\ testTrace = <<>>
  /\ errorContextFile = NoErrorContextFile
  /\ pc = "recording"
  /\ ctx = NoContext
  /\ summaryOut = NoSummary
  /\ issues = <<>>
  /\ uniqueIssues = <<>>
  /\ report = NoReport
  /\ content = <<>>
  /\ jsonl = <<>>
  /\ stderr = <<>>
  /\ parserPc = "writing"
  /\ archive = [mtimeMs |-> ClockValues[1], version |-> 1,
                extractable |-> TRUE]
  /\ unzipped = [exists |-> FALSE, mtimeMs |-> NoTime, files |-> {}]
  /\ inv = [i \in {1, 2} |->
              [pc |-> "idle", path |-> "", error |-> "", hit |-> FALSE,
               todo |-> <<>>, seen |-> {}]]
  /\ extractedAt = NoTime
  /\ testResults = <<>>
  /\ batch = [pc |-> "idle", verbose |-> FALSE, stdout |-> <<>>,
              skippedCount |-> 0]
  /\ cli = [pc |-> "shell", argv |-> <<>>, stdout |-> <<>>, stderr |-> <<>>,
            exitCode |-> 0]
  /\ query = [at |-> "", time |-> "", timestamp |-> NoTime,
              contextCount |-> 0, window |-> "", type |-> "", filter |-> "",
              limit |-> ""]
  /\ result = [error |-> ""]
  /\ awaiting = [pc |-> "shell", pane |-> "", pattern |-> "", long |-> FALSE,
                 elapsed |-> 0, idleMs |-> 0, lastOutput |-> <<>>,
                 capture |-> "none", output |-> <<>>, shellIdle |-> FALSE,
                 stdout |-> "", exitCode |-> 0]
  /\ waiting = [pc |-> "shell", calls |-> 0, pattern |-> "", mode |-> "",
                timeoutSec |-> 0, idleSec |-> 0, elapsed |-> 0,
                idleCount |-> 0, lastOutput |-> <<>>, capture |-> "none",
                stdout |-> "", exitCode |-> 0, outcomes |-> <<>>]
  /\ receipts = [wait |-> [exists |-> FALSE, mtimeMs |-> 0],
                 send |-> [exists |-> FALSE, mtimeMs |-> 0]]
  /\ wallClock = 0
  /\ tasks = <<>>
  /\ ship = [pc |-> "editing", next |-> [line |-> 0, status |-> "", indent |-> 0]]

eventCount == Len(shards[0]) + Len(shards[1]) + Len(testTrace)

\* The recorder's monotonic clock advances.
Tick ==
  /\ pc = "recording"
  /\ now < Len(ClockValues)
  /\ now' = now + 1
  /\ UNCHANGED toolVars
  /\ UNCHANGED <<shards, testTrace, errorContextFile, pc, ctx, summaryOut,
                 issues, uniqueIssues, report>>

\* The recorder appends a browser event to one of the shard files.
RecordBrowserEvent(shardIds, templates) ==
  /\ pc = "recording"
  /\ eventCount < MaxEvents
  /\ \E n \in shardIds, template \in templates :
       shards' = [shards EXCEPT ![n] =
                    Append(@, Stamp(template, ClockValues[now]))]
  /\ UNCHANGED toolVars
  /\ UNCHANGED <<now, testTrace, errorContextFile, pc, ctx, summaryOut,
                 issues, uniqueIssues, report>>

\* The test runner appends a stdout/stderr/error event to test.trace.
RecordRunnerEvent(templates) ==
  /\ pc = "recording"
  /\ eventCount < MaxEvents
  /\ \E template \in templates :
       testTrace' = Append(testTrace,
                           IF template.type = "error" THEN template
                           ELSE Stamp(template, ClockValues[now]))
  /\ UNCHANGED toolVars
  /\ UNCHANGED <<now, shards, errorContextFile, pc, ctx, summaryOut,
                 issues, uniqueIssues, report>>

\* The test runner writes error-context.md next to the trace directory.
WriteErrorContext(files) ==
  /\ pc = "recording"
  /\ ~errorContextFile.exists
  /\ \E file \in files : errorContextFile' = file
  /\ UNCHANGED toolVars
  /\ UNCHANGED <<now, shards, testTrace, pc, ctx, summaryOut,
                 issues, uniqueIssues, report>>

\* A command invocation builds the context from the completed trace.
ParseTrace ==
  /\ pc = "recording"
  /\ ctx' = parseTrace(testTrace, browserTrace)
  /\ pc' = "built"
  /\ UNCHANGED toolVars
  /\ UNCHANGED <<now, shards, testTrace, errorContextFile, summaryOut,
                 issues, uniqueIssues, report>>

CommandSummary ==
  /\ pc = "built"
  /\ summaryOut' = commandSummary(ctx, errorContextFile)
  /\ pc' = "summary"
  /\ UNCHANGED toolVars
  /\ UNCHANGED <<now, shards, testTrace, errorContextFile, ctx,
                 issues, uniqueIssues, report>>

\* diagnose [--verbose]: issues and uniqueIssues are the locals of
\* getDiagnoseResults after the sort and after the deduplication.
CommandDiagnose ==
  /\ pc = "built"
  /\ issues' = sortByTimestamp(foundIssues(ctx, testTrace, errorContextFile))
  /\ uniqueIssues' = deduplicate(<<>>, issues')
  /\ \E verbose \in BOOLEAN :
       /\ report' = diagnoseResults(uniqueIssues', verbose)
       /\ pc' = IF verbose THEN "diagnose-verbose" ELSE "diagnose"
  /\ UNCHANGED toolVars
  /\ UNCHANGED <<now, shards, testTrace, errorContextFile, ctx, summaryOut>>

(***************************************************************************)
(* Spec: verdict and summary.  The runner prints plain and assertion-like  *)
(* lines, pages raise errors in either browser context.                    *)
(***************************************************************************)
VerdictBrowserEvents ==
  {PageErrorEvent(<<"boom">>), ConsoleEvent(<<"hello">>, NoText), LogEvent}

VerdictRunnerEvents ==
  {StdoutEvent(<<"hello">>), StdoutEvent(<<"Expected", "visible">>),
   StderrEvent(<<"hello">>), StderrEvent(<<"Error:", "boom">>)}

VerdictErrorContextFiles ==
  {ErrorContextFile(TRUE, <<"Expected", "visible", "got hidden">>),
   ErrorContextFile(TRUE, NoText),
   ErrorContextFile(FALSE, NoText)}

Next ==
  \/ Tick
  \/ RecordBrowserEvent({0, 1}, VerdictBrowserEvents)
  \/ RecordRunnerEvent(VerdictRunnerEvents)
  \/ WriteErrorContext(VerdictErrorContextFiles)
  \/ ParseTrace
  \/ CommandSummary

Spec == Init /\ [][Next]_vars

(***************************************************************************)
(* SpecMerge: action merge.  Two browser contexts record action starts and *)
(* ends and screencast frames.                                             *)
(***************************************************************************)
CallIds == {"call@1", "call@2"}
ApiNames == {"page.click", "page.waitForTimeout"}

MergeBrowserEvents ==
  {BeforeEvent(c, a) : c \in CallIds, a \in ApiNames}
  \cup {AfterEvent(c, e) : c \in CallIds, e \in {NoText, <<"boom">>}}
  \cup {ScreencastFrameEvent}

NextMerge ==
  \/ Tick
  \/ RecordBrowserEvent({0, 1}, MergeBrowserEvents)
  \/ ParseTrace

SpecMerge == Init /\ [][NextMerge]_vars

(***************************************************************************)
(* SpecDiagnose: the diagnostic engine.  One browser context; texts that   *)
(* match no signature, one, several, and the suppression list.             *)
(***************************************************************************)
TextPlain == <<"hello">>
TextServerError == <<"status of 5dd">>
TextTimeoutAndServerError == <<"Timed out", "waiting for", "status of 5dd">>
TextSentryTimeout == <<"Sentry", "Timed out", "waiting for">>
UrlSentry == <<"ingest.", "sentry">>

DiagnoseBrowserEvents ==
  {ConsoleEvent(t, NoText) :
     t \in {TextPlain, TextTimeoutAndServerError, TextSentryTimeout}}
  \cup {ConsoleEvent(TextServerError, UrlSentry),
        PageErrorEvent(TextTimeoutAndServerError),
        PageErrorEvent(TextSentryTimeout)}

DiagnoseRunnerEvents ==
  {StdoutEvent(TextServerError), TestErrorEvent(TextTimeoutAndServerError)}

DiagnoseErrorContextFiles ==
  {ErrorContextFile(TRUE, <<"Expected", "visible", "got hidden">>),
   ErrorContextFile(TRUE, TextTimeoutAndServerError)}

NextDiagnose ==
  \/ Tick
  \/ RecordBrowserEvent({0}, DiagnoseBrowserEvents)
  \/ RecordRunnerEvent(DiagnoseRunnerEvents)
  \/ WriteErrorContext(DiagnoseErrorContextFiles)
  \/ ParseTrace
  \/ CommandDiagnose

SpecDiagnose == Init /\ [][NextDiagnose]_vars

(***************************************************************************)
(* Properties of the context builder and the summary                       *)
(***************************************************************************)
Built == pc # "recording"

Min(S) == CHOOSE x \in S : \A y \in S : x <= y
Max(S) == CHOOSE x \in S : \A y \in S : x >= y

\* Positions of the runner lines that carry an assertion-failure marker.
markerLines ==
  {i \in 1..Len(testTrace) :
     /\ testTrace[i].type = "stdout" \/ testTrace[i].type = "stderr"
     /\ \E k \in 1..Len(testTrace[i].text) :
          testTrace[i].text[k] \in {"Error:", "Expected"}}

\* Positions of the page errors in the concatenated browser trace.
pageErrorPositions ==
  {i \in 1..Len(browserTrace) : browserTrace[i].type = "pageError"}

\* C1: the verdict is failed with the time/message of the first runner line
\* carrying "Error:" or "Expected"; else failed with those of the first page
\* error; else passed.
C1_VerdictPriority ==
  Built =>
    IF markerLines # {}
    THEN /\ ctx.status = "failed"
         /\ ctx.errorTime = testTrace[Min(markerLines)].time
         /\ ctx.errorMessage = testTrace[Min(markerLines)].text
    ELSE IF pageErrorPositions # {}
    THEN /\ ctx.status = "failed"
         /\ ctx.errorTime = browserTrace[Min(pageErrorPositions)].time
         /\ ctx.errorMessage = browserTrace[Min(pageErrorPositions)].text
    ELSE /\ ctx.status = "passed"
         /\ ctx.errorTime = NoTime
         /\ ctx.errorMessage = NoText

\* A trace with a marker line and a page error with another message, built:
\* the runner line decides.
C1_Witness ==
  /\ pc = "built"
  /\ markerLines # {}
  /\ pageErrorPositions # {}
  /\ ctx.status = "failed"
  /\ ctx.errorMessage = <<"Expected", "visible">>

\* C2: whenever the error-context document exists, the verdict shown by the
\* summary is failed.
C2_ErrorContextForcesFailed ==
  (pc = "summary" /\ errorContextFile.exists) => summaryOut.status = "failed"

(***************************************************************************)
(* Properties of the action merge                                          *)
(***************************************************************************)
actionStarts == filter(browserTrace, "before")

keyActionStarts ==
  SelectSeq(browserTrace,
            LAMBDA e : e.type = "before" /\ e.apiName \in keyActions)

actionEndPositions(callId) ==
  {j \in 1..Len(browserTrace) :
     browserTrace[j].type = "after" /\ browserTrace[j].callId = callId}

\* The Actions of the context are, one for one and in order, the given
\* action-starts, each with the end time and error of the last action-end of
\* its call identifier, or with neither when it has no action-end.
ActionsAreExactly(starts) ==
  /\ Len(ctx.actions) = Len(starts)
  /\ \A k \in 1..Len(starts) :
       LET a == ctx.actions[k]
           ends == actionEndPositions(starts[k].callId)
       IN /\ a.callId = starts[k].callId
          /\ a.startTime = starts[k].time
          /\ a.apiName = starts[k].apiName
          /\ IF ends = {}
             THEN a.endTime = NoTime /\ a.error = NoText
             ELSE /\ a.endTime = browserTrace[Max(ends)].time
                  /\ a.error = browserTrace[Max(ends)].text

C6_CallIdsUnique ==
  Built =>
    \A i, j \in 1..Len(ctx.actions) :
      i # j => ctx.actions[i].callId # ctx.actions[j].callId

IsSortedBy(list, Key(_)) ==
  \A i, j \in 1..Len(list) : i < j => Key(list[i]) <= Key(list[j])

\* C7: the timestamped collections of a built context are sorted ascending.
C7_CollectionsSorted ==
  Built =>
    /\ IsSortedBy(ctx.screenshots, LAMBDA e : e.time)
    /\ IsSortedBy(ctx.consoleMessages, LAMBDA e : e.time)
    /\ IsSortedBy(ctx.errors, LAMBDA e : e.time)
    /\ IsSortedBy(ctx.actions, LAMBDA a : a.startTime)
    /\ IsSortedBy(ctx.logs, LAMBDA e : e.time)

(***************************************************************************)
(* Properties of the diagnostic engine                                     *)
(***************************************************************************)
Diagnosed == pc = "diagnose" \/ pc = "diagnose-verbose"

distance(a, b) == IF a < b THEN b - a ELSE a - b

survives(category, timestamp) ==
  \E k \in 1..Len(uniqueIssues) :
    /\ uniqueIssues[k].category = category
    /\ uniqueIssues[k].timestamp = timestamp

\* C4 as stated: of two found issues of one category less than 1000 ms apart
\* the later one never survives.
C4_EarliestOfPairSurvives ==
  Diagnosed =>
    \A i, j \in 1..Len(issues) :
      (/\ issues[i].category = issues[j].category
       /\ issues[i].timestamp < issues[j].timestamp
       /\ issues[j].timestamp - issues[i].timestamp < 1000)
        => ~survives(issues[j].category, issues[j].timestamp)

\* C4 amended: every surviving issue is a found issue, and every found issue
\* has a surviving issue of its category that is not later than it and less
\* than 1000 ms before it.
C4_RemovedForEarlierSurvivor ==
  Diagnosed =>
    /\ \A k \in 1..Len(uniqueIssues) :
         \E i \in 1..Len(issues) : issues[i] = uniqueIssues[k]
    /\ \A i \in 1..Len(issues) :
         \E k \in 1..Len(uniqueIssues) :
           /\ uniqueIssues[k].category = issues[i].category
           /\ uniqueIssues[k].timestamp <= issues[i].timestamp
           /\ issues[i].timestamp - uniqueIssues[k].timestamp < 1000

\* Three found issues of one category: the middle one is removed for the
\* first, the last one survives although it is within 1000 ms of the middle.
C4_Witness ==
  /\ Diagnosed
  /\ \E i, j \in 1..Len(issues) :
       /\ issues[i].category = issues[j].category
       /\ issues[i].timestamp < issues[j].timestamp
       /\ issues[j].timestamp - issues[i].timestamp < 1000
       /\ ~survives(issues[i].category, issues[i].timestamp)
       /\ survives(issues[j].category, issues[j].timestamp)

\* A text on the suppression list.
suppressedText(text) ==
  \E k \in 1..Len(text) : text[k] \in {"sentry", "Sentry"}

\* C8: no issue is produced from a text that matches a suppression pattern.
C8_SuppressedTextNeverAnIssue ==
  Diagnosed =>
    \A i \in 1..Len(issues) : ~suppressedText(issues[i].text)

\* The signatures, by table position, that match a text.
matchingSignatures(text) ==
  {k \in 1..Len(errorPatterns) : RegexTest(errorPatterns[k].pattern, text)}

labelledBy(issue, info) ==
  /\ issue.category = info.category
  /\ issue.explanation = info.explanation
  /\ issue.solution = info.solution

\* Signature k matches the text and no earlier signature of the table does.
isFirstMatch(k, text) ==
  /\ RegexTest(errorPatterns[k].pattern, text)
  /\ \A j \in 1..(k - 1) : ~RegexTest(errorPatterns[j].pattern, text)

labelledByFirstMatch(issue) ==
  \E k \in 1..Len(errorPatterns) :
    isFirstMatch(k, issue.text) /\ labelledBy(issue, errorPatterns[k])

\* The error message read from the error-context document.
errorContextMessage ==
  IF errorContextFile.errorMessage = NoText THEN <<"Unknown error">>
  ELSE errorContextFile.errorMessage

\* The number of textual signals of the trace with this source, timestamp
\* and text (runner error events and the error-context document count as
\* timestamp 0).
signalCount(source, timestamp, text) ==
  (IF source = "console"
   THEN Cardinality({i \in 1..Len(ctx.consoleMessages) :
                       /\ ctx.consoleMessages[i].time = timestamp
                       /\ ctx.consoleMessages[i].text = text})
   ELSE 0)
  + (IF source = "pageError"
     THEN Cardinality({i \in 1..Len(ctx.errors) :
                         /\ ctx.errors[i].time = timestamp
                         /\ ctx.errors[i].text = text})
     ELSE 0)
  + (IF source = "testOutput"
     THEN Cardinality({i \in 1..Len(testTrace) :
                         /\ testTrace[i].text = text
                         /\ timestamp = IF testTrace[i].type = "error" THEN 0
                                        ELSE testTrace[i].time})
     ELSE 0)
  + (IF /\ source = "testOutput"
        /\ timestamp = 0
        /\ errorContextFile.exists
        /\ text = errorContextMessage
     THEN 1 ELSE 0)

\* No more issues than signals, for every source, timestamp and text.
AtMostOneIssuePerSignal ==
  \A i \in 1..Len(issues) :
    Cardinality({j \in 1..Len(issues) :
                   /\ issues[j].source = issues[i].source
                   /\ issues[j].timestamp = issues[i].timestamp
                   /\ issues[j].text = issues[i].text})
      <= signalCount(issues[i].source, issues[i].timestamp, issues[i].text)

\* C9 as stated: each signal produces at most one issue, labelled by the
\* first signature in table order that matches its text.
C9_LabelledByFirstMatch ==
  Diagnosed =>
    /\ AtMostOneIssuePerSignal
    /\ \A i \in 1..Len(issues) : labelledByFirstMatch(issues[i])

\* C9 amended: each signal produces at most one issue, labelled by the first
\* signature in table order that matches its text; only the error-context
\* document produces an issue when no signature matches, labelled Test
\* Assertion Failed.
C9_FirstMatchOrFallback ==
  Diagnosed =>
    /\ AtMostOneIssuePerSignal
    /\ \A i \in 1..Len(issues) :
         \/ labelledByFirstMatch(issues[i])
         \/ /\ \A k \in 1..Len(errorPatterns) :
                 ~RegexTest(errorPatterns[k].pattern, issues[i].text)
            /\ issues[i].category = "Test Assertion Failed"
            /\ issues[i].source = "testOutput"
            /\ issues[i].timestamp = 0
            /\ errorContextFile.exists
            /\ issues[i].text = errorContextMessage
            /\ \A j \in 1..Len(issues) :
                 j # i => issues[j].text # issues[i].text

\* An issue whose text matches two signatures, and a fallback issue.
C9_Witness ==
  /\ Diagnosed
  /\ \E i, j \in 1..Len(issues) :
       /\ Cardinality(matchingSignatures(issues[i].text)) > 1
       /\ issues[i].category = "Timeout"
       /\ matchingSignatures(issues[j].text) = {}

\* The surviving issues that are not recovered, and the critical ones, by
\* position.
nonRecovered == {i \in 1..Len(uniqueIssues) : ~uniqueIssues[i].recovered}
critical ==
  {i \in nonRecovered :
     uniqueIssues[i].category \in {"Test Assertion Failed", "HTTP 5xx Error"}}

\* The primary diagnosis is that of an earliest issue among the given ones.
primaryIsEarliestOf(positions) ==
  \E i \in positions :
    /\ \A j \in positions : uniqueIssues[i].timestamp <= uniqueIssues[j].timestamp
    /\ report.primaryDiagnosis.explanation = uniqueIssues[i].explanation
    /\ report.primaryDiagnosis.recommendation = uniqueIssues[i].solution

\* C10: the primary diagnosis is that of the first non-recovered critical
\* issue, else of the first non-recovered issue, else the clean result with
\* the number of hidden recovered issues; never that of a recovered issue.
C10_PrimaryDiagnosis ==
  Diagnosed =>
    IF critical # {} THEN primaryIsEarliestOf(critical)
    ELSE IF nonRecovered # {} THEN primaryIsEarliestOf(nonRecovered)
    ELSE /\ report.primaryDiagnosis.explanation =
              "no known patterns"
         /\ report.primaryDiagnosis.recoveredHidden =
              Len(uniqueIssues) - Cardinality(nonRecovered)

\* A report whose first issue is not critical and whose primary diagnosis is
\* that of a later, critical issue.
C10_Witness ==
  /\ Diagnosed
  /\ Len(uniqueIssues) > 1
  /\ 1 \notin critical
  /\ critical # {}
  /\ report.primaryDiagnosis.explanation # uniqueIssues[1].explanation

(***************************************************************************)
(* SpecCap: the report's issue cap.  A page logs an error on a fixed       *)
(* period, so that more issues than the report lists survive the           *)
(* deduplication.                                                          *)
(***************************************************************************)
\* Number of console errors the page logs.
MaxCapEvents == 12

\* Milliseconds between two console errors of the page.
CapPeriod == 500

TextTimeout == <<"Timed out", "waiting for">>

CapTexts == {TextServerError, TextTimeout}

\* The page logs the next console error of its fixed-period series.
RecordPeriodicError(texts) ==
  /\ pc = "recording"
  /\ Len(shards[0]) < MaxCapEvents
  /\ \E text \in texts :
       shards' = [shards EXCEPT ![0] =
                    Append(@, Stamp(ConsoleEvent(text, NoText),
                                    CapPeriod * Len(shards[0])))]
  /\ UNCHANGED toolVars
  /\ UNCHANGED <<now, testTrace, errorContextFile, pc, ctx, summaryOut,
                 issues, uniqueIssues, report>>

NextCap ==
  \/ RecordPeriodicError(CapTexts)
  \/ ParseTrace
  \/ CommandDiagnose

SpecCap == Init /\ [][NextCap]_vars

RECURSIVE sumOver(_, _)
\* Sum of the counts of a per-category count table over a set of categories.
sumOver(table, categories) ==
  IF categories = {} THEN 0
  ELSE LET c == CHOOSE x \in categories : TRUE
       IN table[c] + sumOver(table, categories \ {c})

\* C11: the report lists at most 10 issues, they are the earliest
\* deduplicated non-recovered issues in ascending timestamp order, and
\* issueCount and the per-category counts count every deduplicated
\* non-recovered issue, so the per-category counts add up to issueCount also
\* when more than 10 issues exist.
C11_CapAndCounts ==
  Diagnosed =>
    LET shown == report.issues
        n == Cardinality(nonRecovered)
    IN /\ Len(shown) <= 10
       /\ Len(shown) = IF n < 10 THEN n ELSE 10
       /\ \A k \in 1..Len(shown) :
            /\ k \in nonRecovered
            /\ shown[k] = reportIssue(uniqueIssues[k])
            /\ k > 1 => shown[k - 1].timestamp <= shown[k].timestamp
            /\ \A j \in nonRecovered :
                 j > Len(shown) =>
                   shown[k].timestamp <= uniqueIssues[j].timestamp
       /\ report.issueCount = n
       /\ \A c \in DOMAIN report.byCategory :
            report.byCategory[c] =
              Cardinality({i \in nonRecovered : uniqueIssues[i].category = c})
       /\ {uniqueIssues[i].category : i \in nonRecovered}
            = DOMAIN report.byCategory
       /\ sumOver(report.byCategory, DOMAIN report.byCategory)
            = report.issueCount

\* More than 10 issues of two categories survive the deduplication, and an
\* issue was removed as a duplicate.
C11_Witness ==
  /\ Diagnosed
  /\ report.issueCount > 10
  /\ Len(report.issues) = 10
  /\ Cardinality(DOMAIN report.byCategory) = 2
  /\ Len(uniqueIssues) < Len(issues)

(***************************************************************************)
(* SpecJsonl: the line parser.  A line is a sequence of lexemes; the       *)
(* recorder writes whole, truncated, blank and literal lines.              *)
(***************************************************************************)
\* Number of lines of the file.
MaxLines == 3

JsonlLines ==
  { <<>>, <<" ">>, <<"{">>, <<"{", "}">>, <<" ", "{", " ", "}">>,
    <<"null">>, <<"1">>, <<"}", "{">> }

RECURSIVE trimStart(_)
trimStart(line) ==
  IF line # <<>> /\ Head(line) = " " THEN trimStart(Tail(line)) ELSE line

RECURSIVE trimEnd(_)
trimEnd(line) ==
  IF line # <<>> /\ line[Len(line)] = " "
  THEN trimEnd(SubSeq(line, 1, Len(line) - 1)) ELSE line

\* String.prototype.trim
trim(line) == trimEnd(trimStart(line))

JsValue(type) == [type |-> type]
JsNull == JsValue("null")

\* JSON.parse on the lexemes of a line: whitespace between lexemes is
\* insignificant; <<>> stands for a thrown SyntaxError.
JSONparse(line) ==
  LET lexemes == SelectSeq(line, LAMBDA x : x # " ") IN
  CASE lexemes = <<"{", "}">> -> <<JsValue("object")>>
    [] lexemes = <<"1">> -> <<JsValue("number")>>
    [] lexemes = <<"null">> -> <<JsNull>>
    [] OTHER -> <<>>

\* The lines that reach JSON.parse.
nonBlankLines(lines) == SelectSeq(lines, LAMBDA line : trim(line) # <<>>)

\* The events parseJsonlFile returns for the lines of a file.
parseJsonlFile(lines) ==
  LET kept == nonBlankLines(lines)
      mapped == [i \in 1..Len(kept) |->
                   IF JSONparse(kept[i]) = <<>> THEN JsNull
                   ELSE JSONparse(kept[i])[1]]
  IN SelectSeq(mapped, LAMBDA event : event # JsNull)

\* The lines console.error reports while parseJsonlFile runs.
parseJsonlWarnings(lines) ==
  SelectSeq(nonBlankLines(lines), LAMBDA line : JSONparse(line) = <<>>)

\* The recorder appends a line to the file.
WriteLine(lines) ==
  /\ parserPc = "writing"
  /\ Len(content) < MaxLines
  /\ \E line \in lines : content' = Append(content, line)
  /\ UNCHANGED <<jsonl, stderr, parserPc>>
  /\ UNCHANGED exceptParser

ParseJsonlFile ==
  /\ parserPc = "writing"
  /\ jsonl' = parseJsonlFile(content)
  /\ stderr' = parseJsonlWarnings(content)
  /\ parserPc' = "parsed"
  /\ UNCHANGED content
  /\ UNCHANGED exceptParser

NextJsonl ==
  \/ WriteLine(JsonlLines)
  \/ ParseJsonlFile

SpecJsonl == Init /\ [][NextJsonl]_vars

decodes(line) == JSONparse(line) # <<>>

\* C12: the result of parsing a file is exactly the decoded values of the
\* lines that decode, in line order, and exactly one warning is written for
\* each non-blank line that fails to decode.
C12_ParserTolerance ==
  parserPc = "parsed" =>
    LET decoded == SelectSeq(content, decodes)
        failed == SelectSeq(content,
                            LAMBDA line : trim(line) # <<>> /\ ~decodes(line))
    IN /\ jsonl = [i \in 1..Len(decoded) |-> JSONparse(decoded[i])[1]]
       /\ stderr = failed

(***************************************************************************)
(* SpecCache, SpecRace: the extraction cache.  The test runner writes      *)
(* trace.zip, invocations of the tool extract it into the sibling          *)
(* directory unzipped/ and read the trace files there.  File system calls  *)
(* are the steps; modification times are read off the clock.               *)
(***************************************************************************)
\* Number of times the test runner writes trace.zip.
MaxArchiveWrites == 2

\* The entries of trace.zip, in archive order.
TraceEntries == <<"test.trace", "0-trace.trace">>

NoDir == [exists |-> FALSE, mtimeMs |-> NoTime, files |-> {}]
Idle ==
  [pc |-> "idle", path |-> "", error |-> "", hit |-> FALSE, todo |-> <<>>,
   seen |-> {}]

\* The paths an invocation is given: the archive, an archive path and a
\* path that do not exist, a trace directory, a regular file.
ArchivePath == "trace.zip"
LoaderPaths == {ArchivePath, "missing.zip", "missing", "dir", "notes.txt"}

endsWithZip(path) == path \in {ArchivePath, "missing.zip"}
existsSync(path) == path \in {ArchivePath, "dir", "notes.txt"}
isDirectory(path) == path = "dir"

Running(i) == inv[i].pc # "idle"

\* Variant: a cache directory as old as the archive is reused as well.
cacheNotOlder(unzippedStat, zipStat) ==
  unzippedStat.mtimeMs >= zipStat.mtimeMs

\* unzippedStat.mtimeMs > zipStat.mtimeMs
cacheHit(unzippedStat, zipStat) == unzippedStat.mtimeMs > zipStat.mtimeMs

\* The test runner writes a new trace.zip while no invocation runs; kinds
\* says whether unzip can extract what it writes.
WriteArchive(kinds) ==
  /\ \A i \in DOMAIN inv : ~Running(i)
  /\ archive.version < MaxArchiveWrites
  /\ \E extractable \in kinds :
       archive' = [mtimeMs |-> ClockValues[now],
                   version |-> archive.version + 1,
                   extractable |-> extractable]
  /\ UNCHANGED <<unzipped, inv, extractedAt>>
  /\ UNCHANGED exceptLoader

\* An invocation is started on a path.
Invoke(ids, paths) ==
  /\ \E i \in ids, path \in paths :
       /\ inv[i].pc = "idle"
       /\ inv' = [inv EXCEPT ![i].pc = "getTraceDir", ![i].path = path]
  /\ UNCHANGED <<archive, unzipped, extractedAt>>
  /\ UNCHANGED exceptLoader

\* getTraceDirAsync / getTraceDir up to the call of unzipTrace.
GetTraceDir(ids) ==
  /\ \E i \in ids :
       /\ inv[i].pc = "getTraceDir"
       /\ inv' =
            IF endsWithZip(inv[i].path)
            THEN IF ~existsSync(inv[i].path)
                 THEN [inv EXCEPT ![i].pc = "failed",
                                  ![i].error = "Trace file not found"]
                 ELSE [inv EXCEPT ![i].pc = "existsSync"]
            ELSE IF existsSync(inv[i].path) /\ isDirectory(inv[i].path)
                 THEN [inv EXCEPT ![i].pc = "parseTrace"]
                 ELSE [inv EXCEPT ![i].pc = "failed",
                                  ![i].error = "Invalid trace path"]
  /\ UNCHANGED <<archive, unzipped, extractedAt>>
  /\ UNCHANGED exceptLoader

\* fs.existsSync(outputDir)
ExistsSync(ids) ==
  /\ \E i \in ids :
       /\ inv[i].pc = "existsSync"
       /\ inv' = [inv EXCEPT ![i].pc = IF unzipped.exists THEN "statSync"
                                       ELSE "mkdirSync"]
  /\ UNCHANGED <<archive, unzipped, extractedAt>>
  /\ UNCHANGED exceptLoader

\* The two statSync calls and the cache check; statSync throws when the
\* directory is gone.
StatSync(ids) ==
  /\ \E i \in ids :
       /\ inv[i].pc = "statSync"
       /\ inv' = [inv EXCEPT ![i].pc = IF ~unzipped.exists THEN "failed"
                                       ELSE IF cacheHit(unzipped, archive)
                                       THEN "parseTrace"
                                       ELSE "rmSync",
                              ![i].error = IF ~unzipped.exists THEN "ENOENT"
                                           ELSE "",
                              ![i].hit = /\ unzipped.exists
                                         /\ cacheHit(unzipped, archive)]
  /\ UNCHANGED <<archive, unzipped, extractedAt>>
  /\ UNCHANGED exceptLoader

\* fs.rmSync(outputDir, {recursive: true}): one entry is unlinked per step,
\* then the directory; it throws when the directory is gone.
RmSync(ids) ==
  /\ \E i \in ids :
       /\ inv[i].pc = "rmSync"
       /\ IF ~unzipped.exists
          THEN /\ inv' = [inv EXCEPT ![i].pc = "failed",
                                      ![i].error = "ENOENT"]
               /\ UNCHANGED unzipped
          ELSE IF unzipped.files # {}
          THEN /\ \E f \in unzipped.files :
                    unzipped' = [unzipped EXCEPT !.files = @ \ {f},
                                                 !.mtimeMs = ClockValues[now]]
               /\ UNCHANGED inv
          ELSE /\ unzipped' = NoDir
               /\ inv' = [inv EXCEPT ![i].pc = "mkdirSync"]
  /\ UNCHANGED <<archive, extractedAt>>
  /\ UNCHANGED exceptLoader

\* fs.mkdirSync(outputDir, {recursive: true})
MkdirSync(ids) ==
  /\ \E i \in ids :
       /\ inv[i].pc = "mkdirSync"
       /\ unzipped' = IF unzipped.exists THEN unzipped
                      ELSE [exists |-> TRUE, mtimeMs |-> ClockValues[now],
                            files |-> {}]
       /\ inv' = [inv EXCEPT ![i].pc = "unzip", ![i].todo = TraceEntries]
  /\ UNCHANGED <<archive, extractedAt>>
  /\ UNCHANGED exceptLoader

\* unzip -q: the next entry is extracted (an existing file is left as it
\* is, a missing directory is created); after the last entry unzipTrace
\* returns.  On an archive unzip cannot extract execSync throws.
Unzip(ids) ==
  /\ \E i \in ids :
       /\ inv[i].pc = "unzip"
       /\ IF ~archive.extractable
          THEN /\ inv' = [inv EXCEPT ![i].pc = "failed",
                                      ![i].error = "Command failed: unzip"]
               /\ UNCHANGED <<unzipped, extractedAt>>
          ELSE IF inv[i].todo = <<>>
          THEN /\ inv' = [inv EXCEPT ![i].pc = "parseTrace"]
               /\ extractedAt' = archive.mtimeMs
               /\ UNCHANGED unzipped
          ELSE /\ inv' = [inv EXCEPT ![i].todo = Tail(@)]
               /\ unzipped' =
                    IF \E f \in unzipped.files : f.name = Head(inv[i].todo)
                    THEN unzipped
                    ELSE [exists |-> TRUE, mtimeMs |-> ClockValues[now],
                          files |-> unzipped.files \cup
                                      {[name |-> Head(inv[i].todo),
                                        version |-> archive.version]}]
               /\ UNCHANGED extractedAt
  /\ UNCHANGED archive
  /\ UNCHANGED exceptLoader

\* The files of a trace directory that is given as the path.
directoryFiles ==
  {[name |-> TraceEntries[k], version |-> 0] : k \in 1..Len(TraceEntries)}

\* parseTrace reads the trace files of the directory getTraceDir returned;
\* readdirSync throws when the directory is gone.
ReadTraceFiles(ids) ==
  /\ \E i \in ids :
       /\ inv[i].pc = "parseTrace"
       /\ inv' =
            IF ~endsWithZip(inv[i].path)
            THEN [inv EXCEPT ![i].pc = "done", ![i].seen = directoryFiles]
            ELSE IF unzipped.exists
            THEN [inv EXCEPT ![i].pc = "done", ![i].seen = unzipped.files]
            ELSE [inv EXCEPT ![i].pc = "failed", ![i].error = "ENOENT"]
  /\ UNCHANGED <<archive, unzipped, extractedAt>>
  /\ UNCHANGED exceptLoader

\* The process of an invocation ends.
Exit(ids) ==
  /\ \E i \in ids :
       /\ inv[i].pc \in {"done", "failed"}
       /\ inv' = [inv EXCEPT ![i] = Idle]
  /\ UNCHANGED <<archive, unzipped, extractedAt>>
  /\ UNCHANGED exceptLoader

Unzipping(ids, paths) ==
  \/ Invoke(ids, paths)
  \/ GetTraceDir(ids)
  \/ ExistsSync(ids)
  \/ StatSync(ids)
  \/ RmSync(ids)
  \/ MkdirSync(ids)
  \/ Unzip(ids)
  \/ ReadTraceFiles(ids)
  \/ Exit(ids)

\* One invocation at a time.
NextCache ==
  \/ Tick
  \/ WriteArchive({TRUE})
  \/ Unzipping({1}, {ArchivePath})

SpecCache == Init /\ [][NextCache]_vars

\* Two invocations on the same archive.
NextRace ==
  \/ Tick
  \/ WriteArchive({TRUE})
  \/ Unzipping({1, 2}, {ArchivePath})

SpecRace == Init /\ [][NextRace]_vars

\* One invocation at a time, on any path; the test runner may leave an
\* archive that unzip cannot extract.
NextLoader ==
  \/ Tick
  \/ WriteArchive(BOOLEAN)
  \/ Unzipping({1}, LoaderPaths)

SpecLoader == Init /\ [][NextLoader]_vars

\* The cache check of invocation i is about to be made on an existing
\* directory, and step is what it may do.
atCacheCheck(i) == inv[i].pc = "statSync" /\ unzipped.exists
reuses(i) ==
  inv'[i].pc \in {"statSync", "parseTrace"} /\ unzipped' = unzipped
reExtracts(i) == inv'[i].pc \in {"statSync", "rmSync"}

\* The files of the current archive, as a complete extraction leaves them.
extractedFiles ==
  {[name |-> TraceEntries[k], version |-> archive.version] :
     k \in 1..Len(TraceEntries)}

C14_NoPartialRead ==
  \A i \in DOMAIN inv :
    inv[i].pc = "done" =>
      {f.name : f \in inv[i].seen}
        = {TraceEntries[k] : k \in 1..Len(TraceEntries)}

(***************************************************************************)
(* SpecBatch: diagnose-all.  Test runs leave directories under             *)
(* test-results/: without a trace.zip, with one that unzip rejects, with   *)
(* one whose trace is clean, with one whose trace has an issue.            *)
(***************************************************************************)
\* Number of directories under test-results/.
MaxTraces == 3

ResultDir(hasTraceZip, extractable, events) ==
  [hasTraceZip |-> hasTraceZip, extractable |-> extractable,
   events |-> events]

ResultDirs ==
  {ResultDir(FALSE, FALSE, <<>>),
   ResultDir(TRUE, FALSE, <<>>),
   ResultDir(TRUE, TRUE, <<>>),
   ResultDir(TRUE, TRUE, <<Stamp(ConsoleEvent(TextPlain, NoText), 0)>>),
   ResultDir(TRUE, TRUE, <<Stamp(ConsoleEvent(TextTimeout, NoText), 0)>>)}

\* getDiagnoseResults on the context of a trace directory.
getDiagnoseResults(events, verbose) ==
  LET context == parseTrace(<<>>, events)
      found == sortByTimestamp(foundIssues(context, <<>>, NoErrorContextFile))
  IN diagnoseResults(deduplicate(<<>>, found), verbose)

\* The positions of the directories that hold a trace.zip, in readdir order.
tracesOf(dirs) ==
  SelectSeq([i \in 1..Len(dirs) |-> i], LAMBDA i : dirs[i].hasTraceZip)

ErrorLine(testName) == [kind |-> "error", testName |-> testName, count |-> 0]
ReportLine(testName, results) ==
  [kind |-> "diagnose", testName |-> testName, count |-> results.issueCount]
SkippedLine(count) == [kind |-> "skipped", testName |-> 0, count |-> count]

\* Variant: a trace that fails is counted with the skipped ones.
diagnoseTraceErrorSkipped(acc, dir, testName, verbose) ==
  IF ~dir.extractable
  THEN [acc EXCEPT !.skippedCount = @ + 1]
  ELSE LET results == getDiagnoseResults(dir.events, verbose) IN
       IF ~verbose /\ results.issueCount = 0
       THEN [acc EXCEPT !.skippedCount = @ + 1]
       ELSE [acc EXCEPT !.stdout = Append(@, ReportLine(testName, results))]

\* One step of the reduce: the try block and its catch.  unzip throws on
\* an archive it cannot extract.
diagnoseTrace(acc, dir, testName, verbose) ==
  IF ~dir.extractable
  THEN [acc EXCEPT !.stdout = Append(@, ErrorLine(testName))]
  ELSE LET results == getDiagnoseResults(dir.events, verbose) IN
       IF ~verbose /\ results.issueCount = 0
       THEN [acc EXCEPT !.skippedCount = @ + 1]
       ELSE [acc EXCEPT !.stdout = Append(@, ReportLine(testName, results))]

RECURSIVE reduceTraces(_, _, _, _)
reduceTraces(acc, dirs, traces, verbose) ==
  IF traces = <<>> THEN acc
  ELSE reduceTraces(diagnoseTrace(acc, dirs[Head(traces)], Head(traces),
                                  verbose),
                    dirs, Tail(traces), verbose)

\* commandDiagnoseAll; testName 0 marks a line that belongs to no trace.
commandDiagnoseAll(dirs, verbose) ==
  LET traces == tracesOf(dirs)
      start == [pc |-> "done", verbose |-> verbose, stdout |-> <<>>,
                skippedCount |-> 0]
  IN IF traces = <<>>
     THEN [start EXCEPT !.stdout = <<ErrorLine(0)>>]
     ELSE LET end == reduceTraces(start, dirs, traces, verbose) IN
          IF end.skippedCount > 0
          THEN [end EXCEPT !.stdout = Append(@, SkippedLine(end.skippedCount))]
          ELSE end

\* A test run leaves a directory under test-results/.
CreateResultDir(dirs) ==
  /\ batch.pc = "idle"
  /\ Len(testResults) < MaxTraces
  /\ \E dir \in dirs : testResults' = Append(testResults, dir)
  /\ UNCHANGED batch
  /\ UNCHANGED exceptBatch

CommandDiagnoseAll ==
  /\ batch.pc = "idle"
  /\ \E verbose \in BOOLEAN :
       batch' = commandDiagnoseAll(testResults, verbose)
  /\ UNCHANGED testResults
  /\ UNCHANGED exceptBatch

NextBatch ==
  \/ CreateResultDir(ResultDirs)
  \/ CommandDiagnoseAll

SpecBatch == Init /\ [][NextBatch]_vars

linesOf(testName, kind) ==
  {k \in 1..Len(batch.stdout) :
     batch.stdout[k].testName = testName /\ batch.stdout[k].kind = kind}

isClean(dir) ==
  dir.extractable /\ getDiagnoseResults(dir.events, FALSE).issueCount = 0

\* C15: in diagnose-all a trace that fails is reported inline as an error
\* entry and the traces after it are still processed; every discovered
\* trace ends as exactly one of: reported, reported as an error, counted as
\* skipped (only a clean trace, only without --verbose).
C15_BatchIsolation ==
  batch.pc = "done" =>
    LET discovered == {i \in 1..Len(testResults) : testResults[i].hasTraceZip}
        reported == {i \in discovered : linesOf(i, "diagnose") # {}}
        failed == {i \in discovered : linesOf(i, "error") # {}}
        skipped == discovered \ (reported \cup failed)
    IN /\ reported \cap failed = {}
       /\ \A i \in discovered :
            Cardinality(linesOf(i, "diagnose") \cup linesOf(i, "error")) <= 1
       /\ \A i \in discovered : ~testResults[i].extractable <=> i \in failed
       /\ \A i \in skipped : isClean(testResults[i]) /\ ~batch.verbose
       /\ batch.skippedCount = Cardinality(skipped)
       /\ \A i \in 1..Len(testResults) :
            ~testResults[i].hasTraceZip =>
              linesOf(i, "diagnose") \cup linesOf(i, "error") = {}

\* A failing trace is followed by a trace that is reported and by one that
\* is skipped.
C15_Witness ==
  /\ batch.pc = "done"
  /\ Len(testResults) = 3
  /\ linesOf(1, "error") # {}
  /\ linesOf(2, "diagnose") # {}
  /\ batch.skippedCount = 1

(***************************************************************************)
(* SpecCli: one process of the tool.  The shell starts it with a command,  *)
(* a trace path and options; it writes to stdout and stderr and exits.     *)
(***************************************************************************)
TracePath(zip, exists, directory, extractable, events) ==
  [endsWithZip |-> zip, exists |-> exists, isDirectory |-> directory,
   extractable |-> extractable, events |-> events]

\* A trace with one screenshot and one console message.
CliEvents ==
  <<Stamp(ScreencastFrameEvent, 0), Stamp(ConsoleEvent(TextTimeout, NoText), 0)>>

TracePaths ==
  {TracePath(TRUE, FALSE, FALSE, FALSE, <<>>),
   TracePath(TRUE, TRUE, FALSE, FALSE, <<>>),
   TracePath(TRUE, TRUE, FALSE, TRUE, <<>>),
   TracePath(TRUE, TRUE, FALSE, TRUE, CliEvents),
   TracePath(FALSE, TRUE, TRUE, FALSE, CliEvents),
   TracePath(FALSE, TRUE, FALSE, FALSE, <<>>),
   TracePath(FALSE, FALSE, FALSE, FALSE, <<>>)}

Commands == {"summary", "screenshot", "console", "around", "diagnose"}

Options(at, regex, time, verbose) ==
  [at |-> at, filter |-> regex, time |-> time, verbose |-> verbose]

Argv(command, tracePath, options) ==
  [command |-> command, tracePath |-> tracePath, options |-> options]

\* The command lines the shell starts the tool with.
Argvs ==
  {Argv(c, p, Options("error", "", "", v)) :
     c \in {"summary", "diagnose", "bogus"}, p \in TracePaths, v \in BOOLEAN}
  \cup {Argv("screenshot", p, Options(at, "", "", FALSE)) :
          p \in TracePaths, at \in {"error", "0", "1", "-1"}}
  \cup {Argv("console", p, Options("error", f, "", FALSE)) :
          p \in TracePaths, f \in {"", "Timed out", "("}}
  \cup {Argv("around", p, Options("error", "", t, FALSE)) :
          p \in TracePaths, t \in {"0", "abc"}}
  \cup {Argv("diagnose-all", TracePath(FALSE, FALSE, FALSE, FALSE, <<>>),
              Options("error", "", "", v)) : v \in BOOLEAN}

\* Number(text); <<>> stands for NaN.
Number(text) ==
  CASE text = "0" -> <<0>>
    [] text = "1" -> <<1>>
    [] text = "2" -> <<2>>
    [] text = "3" -> <<3>>
    [] text = "4" -> <<4>>
    [] text = "-1" -> <<-1>>
    [] text = "100" -> <<100>>
    [] text = "500" -> <<500>>
    [] text = "999" -> <<999>>
    [] text = "1000" -> <<1000>>
    [] OTHER -> <<>>

\* new RegExp(text, "i") throws on a pattern that is not well formed.
RegExpThrows(text) == text = "("

\* The message of the Error getTraceDirAsync throws for a path, "" when it
\* returns a trace directory.
getTraceDirError(tracePath) ==
  IF tracePath.endsWithZip
  THEN IF ~tracePath.exists THEN "Trace file not found"
       ELSE IF ~tracePath.extractable THEN "Command failed: unzip"
       ELSE ""
  ELSE IF tracePath.exists /\ tracePath.isDirectory THEN ""
  ELSE "Invalid trace path"

\* The message of the Error the command function throws on a context, ""
\* when it prints its results.
commandError(command, options, context) ==
  CASE command = "screenshot" ->
         IF options.at # "error" /\ Number(options.at) # <<>>
            /\ Number(options.at)[1] \notin 0..(Len(context.screenshots) - 1)
         THEN "Screenshot index out of range" ELSE ""
    [] command = "console" ->
         IF options.filter # "" /\ context.consoleMessages # <<>>
            /\ RegExpThrows(options.filter)
         THEN "Invalid regular expression" ELSE ""
    [] command = "around" ->
         IF Number(options.time) = <<>>
         THEN "--time is required for around command" ELSE ""
    [] OTHER -> ""

OutLine(kind, testName) == [kind |-> kind, testName |-> testName]

\* What a process has written and its exit code when it ends.
Exited(argv, out, err, exitCode) ==
  [pc |-> "exited", argv |-> argv, stdout |-> out, stderr |-> err,
   exitCode |-> exitCode]

\* runTraceCommand.  Lines are "header" and "text" (plain text), "envelope"
\* ({command, tracePath, results}) and "error" ({error: message}).
runTraceCommand(argv, dirs) ==
  IF argv.command = "diagnose-all"
  THEN LET done == commandDiagnoseAll(dirs, argv.options.verbose)
           lines == [k \in 1..Len(done.stdout) |->
                       OutLine(CASE done.stdout[k].kind = "diagnose"
                                      -> "envelope"
                                 [] done.stdout[k].kind = "skipped" -> "text"
                                 [] OTHER -> "error",
                               done.stdout[k].testName)]
       IN Exited(argv, lines, <<>>, 0)
  ELSE LET header == IF argv.tracePath.endsWithZip /\ argv.tracePath.exists
                     THEN <<OutLine("header", 0)>> ELSE <<>>
           context == parseTrace(<<>>, argv.tracePath.events)
       IN IF getTraceDirError(argv.tracePath) # ""
          THEN Exited(argv, <<>>, header \o <<OutLine("error", 0)>>, 1)
          ELSE IF argv.command \notin Commands
          THEN Exited(argv, <<>>,
                      header \o <<OutLine("text", 0), OutLine("text", 0)>>, 1)
          ELSE IF commandError(argv.command, argv.options, context) # ""
          THEN Exited(argv, <<>>, header \o <<OutLine("error", 0)>>, 1)
          ELSE Exited(argv, <<OutLine("envelope", 0)>>, header, 0)

CliResultDirs ==
  {ResultDir(FALSE, FALSE, <<>>),
   ResultDir(TRUE, FALSE, <<>>),
   ResultDir(TRUE, TRUE, <<Stamp(ConsoleEvent(TextTimeout, NoText), 0)>>)}

\* The shell starts the tool with a command line.
Exec(argvs) ==
  /\ cli.pc = "shell"
  /\ \E argv \in argvs : cli' = [cli EXCEPT !.pc = "running", !.argv = argv]
  /\ UNCHANGED <<batchVars, exceptCli>>

RunTraceCommand ==
  /\ cli.pc = "running"
  /\ cli' = runTraceCommand(cli.argv, testResults)
  /\ UNCHANGED <<batchVars, exceptCli>>

\* The test runs leave their directories before the tool is started.
NextCli ==
  \/ CreateResultDir(CliResultDirs) /\ cli.pc = "shell"
  \/ Exec(Argvs)
  \/ RunTraceCommand

SpecCli == Init /\ [][NextCli]_vars

wrote(kind) ==
  \/ \E k \in 1..Len(cli.stdout) :
       cli.stdout[k].kind = kind /\ cli.stdout[k].testName = 0
  \/ \E k \in 1..Len(cli.stderr) : cli.stderr[k].kind = kind

\* The unrecoverable errors of a command line: bad path, invalid command,
\* invalid regex, out-of-range index.
badPath(tracePath) ==
  \/ ~tracePath.exists
  \/ ~tracePath.isDirectory
     /\ ~(tracePath.endsWithZip /\ tracePath.extractable)
invalidCommand(argv) == argv.command \notin Commands \cup {"diagnose-all"}
invalidRegex(argv) ==
  argv.command = "console" /\ RegExpThrows(argv.options.filter)
outOfRangeIndex(argv) ==
  /\ argv.command = "screenshot"
  /\ Number(argv.options.at) # <<>>
  /\ Number(argv.options.at)[1] \notin
       0..(Len(SelectSeq(argv.tracePath.events,
                         LAMBDA e : e.type = "screencast-frame")) - 1)
unrecoverable(argv) ==
  IF argv.command = "diagnose-all" THEN FALSE
  ELSE \/ badPath(argv.tracePath)
       \/ invalidCommand(argv)
       \/ invalidRegex(argv)
       \/ outOfRangeIndex(argv)

\* C16: a process that meets an unrecoverable error (bad path, invalid
\* command, invalid regex, out-of-range index) writes an {error: message}
\* JSON and exits non-zero; an {error} JSON is never paired with exit code
\* 0; a failure is never reported without an {error} JSON; a process that
\* exits 0 has written no {error}.
C16_EnvelopeAndExitCode ==
  cli.pc = "exited" =>
    /\ unrecoverable(cli.argv) => wrote("error") /\ cli.exitCode # 0
    /\ wrote("error") => cli.exitCode # 0
    /\ cli.exitCode # 0 => wrote("error")
    /\ (cli.exitCode = 0 /\ cli.argv.command # "diagnose-all")
         => wrote("envelope")

ended(i) == inv[i].pc \in {"done", "failed"}

\* C17: an invocation on a path that does not exist fails with the
\* not-found error; on an existing path that is neither a directory nor an
\* archive unzip can extract it fails with the invalid-archive or the
\* invalid-path error; in neither case a context is built.
C17_LoaderErrors ==
  \A i \in DOMAIN inv :
    ended(i) =>
      /\ ~existsSync(inv[i].path) =>
           inv[i].pc = "failed" /\ inv[i].error = "Trace file not found"
      /\ (/\ existsSync(inv[i].path)
          /\ ~isDirectory(inv[i].path)
          /\ ~(inv[i].path = ArchivePath /\ archive.extractable)) =>
           /\ inv[i].pc = "failed"
           /\ inv[i].error \in {"Invalid trace path", "Command failed: unzip"}

(***************************************************************************)
(* SpecScreenshot: the nearest-screenshot search and the screenshot        *)
(* command.  Two pages record screencast frames.                           *)
(***************************************************************************)
\* Largest number of screenshots asked for on each side of the target.
MaxContext == 2

\* The timestamps searched for.
QueryTimes == {0, 500, 999, 1000, 1500}

\* The values of --at.
AtValues == {"error", "-1", "0", "1", "2", "3", "4"}

RECURSIVE insertByTime(_, _)
insertByTime(sorted, event) ==
  IF sorted = <<>> THEN <<event>>
  ELSE IF Head(sorted).time - event.time > 0
       THEN <<event>> \o sorted
       ELSE <<Head(sorted)>> \o insertByTime(Tail(sorted), event)

RECURSIVE sortByTime(_)
\* [...screenshots].sort((a, b) => a.timestamp - b.timestamp), stable.
sortByTime(list) ==
  IF list = <<>> THEN <<>>
  ELSE insertByTime(sortByTime(SubSeq(list, 1, Len(list) - 1)),
                    list[Len(list)])

\* sorted[index] for a 0-based index that is in range.
at0(sorted, index) == sorted[index + 1]

RECURSIVE closestFrom(_, _, _, _)
\* The reduce over sorted from currentIndex on, with bestIndex so far.
closestFrom(sorted, timestamp, bestIndex, currentIndex) ==
  IF currentIndex >= Len(sorted) THEN bestIndex
  ELSE closestFrom(sorted, timestamp,
                   IF abs(at0(sorted, currentIndex).time - timestamp)
                      < abs(at0(sorted, bestIndex).time - timestamp)
                   THEN currentIndex ELSE bestIndex,
                   currentIndex + 1)

\* Variant: the target is the last screenshot taken at or before the
\* timestamp (the first screenshot when there is none).
closestIndexNotAfter(sorted, timestamp) ==
  LET notAfter == {i \in 0..(Len(sorted) - 1) :
                     at0(sorted, i).time <= timestamp}
  IN IF notAfter = {} THEN 0 ELSE Max(notAfter)

closestIndexOf(sorted, timestamp) == closestFrom(sorted, timestamp, 0, 0)

ScreenshotEntry(sorted, index) ==
  [index |-> index, timestamp |-> at0(sorted, index).time]

NoScreenshot ==
  [error |-> "", target |-> "", targetIndex |-> -1, timestamp |-> 0,
   before |-> <<>>, after |-> <<>>]

getScreenshotsAround(screenshots, timestamp, contextCount) ==
  LET sorted == sortByTime(screenshots) IN
  IF Len(sorted) = 0 THEN NoScreenshot
  ELSE LET closestIndex == closestIndexOf(sorted, timestamp)
           start == IF closestIndex - contextCount > 0
                    THEN closestIndex - contextCount ELSE 0
           end == IF closestIndex + 1 + contextCount < Len(sorted)
                  THEN closestIndex + 1 + contextCount ELSE Len(sorted)
       IN [error |-> "",
           target |-> "resources",
           targetIndex |-> closestIndex,
           timestamp |-> at0(sorted, closestIndex).time,
           before |-> [idx \in 1..(closestIndex - start) |->
                         ScreenshotEntry(sorted, start + idx - 1)],
           after |-> [idx \in 1..(end - closestIndex - 1) |->
                        ScreenshotEntry(sorted, closestIndex + idx)]]

\* Number(options.context) || (at === "error" ? 2 : 0)
contextCountOf(at, context) ==
  IF context # 0 THEN context ELSE IF at = "error" THEN 2 ELSE 0

\* The throw of getTimestamp for an index outside the sorted list.
OutOfRange == [error |-> "Screenshot index out of range"]

commandScreenshot(context, at, contextOption) ==
  LET sorted == sortByTime(context.screenshots)
      contextCount == contextCountOf(at, contextOption)
  IN IF at = "error"
     THEN getScreenshotsAround(
            context.screenshots,
            IF context.errorTime \notin {NoTime, 0} THEN context.errorTime
            ELSE IF context.screenshots # <<>>
            THEN context.screenshots[Len(context.screenshots)].time
            ELSE 0,
            contextCount)
     ELSE IF Number(at)[1] \notin 0..(Len(sorted) - 1) THEN OutOfRange
     ELSE getScreenshotsAround(context.screenshots,
                               at0(sorted, Number(at)[1]).time, contextCount)

\* A projection looks for the screenshot nearest to a timestamp.
GetScreenshotsAround ==
  /\ pc = "built"
  /\ \E timestamp \in QueryTimes, contextCount \in 0..MaxContext :
       /\ query' = [query EXCEPT !.timestamp = timestamp,
                                  !.contextCount = contextCount]
       /\ result' = getScreenshotsAround(ctx.screenshots, timestamp,
                                         contextCount)
  /\ pc' = "screenshotsAround"
  /\ UNCHANGED <<now, shards, testTrace, errorContextFile, ctx, summaryOut,
                 issues, uniqueIssues, report>>
  /\ UNCHANGED exceptProjection

\* screenshot --at <index|error> --context <n>
CommandScreenshot ==
  /\ pc = "built"
  /\ \E at \in AtValues, contextOption \in 0..MaxContext :
       /\ query' = [query EXCEPT !.at = at, !.contextCount = contextOption]
       /\ result' = commandScreenshot(ctx, at, contextOption)
  /\ pc' = "screenshot"
  /\ UNCHANGED <<now, shards, testTrace, errorContextFile, ctx, summaryOut,
                 issues, uniqueIssues, report>>
  /\ UNCHANGED exceptProjection

NextScreenshot ==
  \/ Tick
  \/ RecordBrowserEvent({0, 1}, {ScreencastFrameEvent})
  \/ ParseTrace
  \/ GetScreenshotsAround
  \/ CommandScreenshot

SpecScreenshot == Init /\ [][NextScreenshot]_vars

\* The timestamps of the screenshots in ascending order, 0-based.
sortedTimes ==
  LET sorted == sortByTime(ctx.screenshots) IN
  [i \in 0..(Len(sorted) - 1) |-> at0(sorted, i).time]

\* list holds the screenshots of the positions first..last of the sorted
\* list, in that order.
isRun(list, first, last) ==
  /\ Len(list) = last - first + 1
  /\ \A k \in 1..Len(list) :
       /\ list[k].index = first + k - 1
       /\ list[k].index \in DOMAIN sortedTimes
       /\ list[k].timestamp = sortedTimes[list[k].index]

\* The result has its given number of screenshots before and after target
\* index t, adjacent to it and in range.
hasContext(t, countBefore, countAfter) ==
  /\ result.targetIndex = t
  /\ isRun(result.before, t - countBefore, t - 1)
  /\ isRun(result.after, t + 1, t + countAfter)

\* C18: the nearest-screenshot search returns as target a screenshot with
\* the least absolute time difference to the timestamp, with min(N,
\* targetIndex) screenshots before it and min(N, count - 1 - targetIndex)
\* after it, adjacent and in range; without screenshots it returns the
\* sentinel (target index -1, empty lists).
C18_NearestScreenshot ==
  pc = "screenshotsAround" =>
    LET count == Len(ctx.screenshots)
        N == query.contextCount
        t == result.targetIndex
    IN IF count = 0
       THEN result = NoScreenshot
       ELSE /\ t \in 0..(count - 1)
            /\ result.timestamp = sortedTimes[t]
            /\ \A i \in 0..(count - 1) :
                 distance(sortedTimes[t], query.timestamp)
                   <= distance(sortedTimes[i], query.timestamp)
            /\ hasContext(t, Min({N, t}), Min({N, count - 1 - t}))

\* The target is a middle screenshot with one screenshot on each side where
\* two were asked for, and an earlier screenshot is farther from the
\* timestamp.
C18_Witness ==
  /\ pc = "screenshotsAround"
  /\ Len(ctx.screenshots) = 3
  /\ query.contextCount = 2
  /\ result.targetIndex = 1
  /\ Len(result.before) = 1
  /\ Len(result.after) = 1
  /\ sortedTimes[0] < sortedTimes[1]
  /\ ctx.screenshots[1].time > ctx.screenshots[3].time

\* C19: screenshot --at i --context c returns target index i of the
\* timestamp-sorted list with min(c, i) screenshots before and
\* min(c, n - 1 - i) after; an index outside 0..n-1 is the out-of-range
\* error.
C19_ScreenshotAtIndex ==
  (pc = "screenshot" /\ query.at # "error") =>
    LET n == Len(ctx.screenshots)
        i == Number(query.at)[1]
        c == query.contextCount
    IN IF i \in 0..(n - 1)
       THEN /\ result.error = ""
            /\ hasContext(i, Min({c, i}), Min({c, n - 1 - i}))
       ELSE result = OutOfRange

(***************************************************************************)
(* SpecAround: the time-window query.  A page logs console messages, log   *)
(* lines and page errors and starts actions.                               *)
(***************************************************************************)
AroundBrowserEvents ==
  {ConsoleEvent(TextPlain, NoText), LogEvent, PageErrorEvent(<<"boom">>),
   BeforeEvent("call@1", "page.click")}

\* The values of --time and of --window ("500" is the default of the
\* option).
AroundTimes == {"0", "1000", "abc"}
AroundWindows == {"500", "0", "1", "1000"}

\* Number(options.window) || 500
windowOf(text) ==
  IF Number(text) = <<>> \/ Number(text) = <<0>> THEN 500
  ELSE Number(text)[1]

AroundEntry(time, text) == [time |-> time, text |-> text]

commandAround(context, options) ==
  IF Number(options.time) = <<>>
  THEN [error |-> "--time is required for around command"]
  ELSE LET time == Number(options.time)[1]
           window == windowOf(options.window)
           consoleInWindow ==
             SelectSeq(context.consoleMessages,
                       LAMBDA c : abs(c.time - time) <= window)
           actionsInWindow ==
             SelectSeq(context.actions,
                       LAMBDA a : abs(a.startTime - time) <= window)
           logsInWindow ==
             SelectSeq(context.logs, LAMBDA l : abs(l.time - time) <= window)
           errorsInWindow ==
             SelectSeq(context.errors,
                       LAMBDA e : abs(e.time - time) <= window)
       IN [error |-> "",
           targetTime |-> time,
           window |-> window,
           nearestScreenshot |->
             getScreenshotsAround(context.screenshots, time, 1).target,
           console |-> [i \in 1..Len(consoleInWindow) |->
                          AroundEntry(consoleInWindow[i].time,
                                      consoleInWindow[i].text)],
           actions |-> [i \in 1..Len(actionsInWindow) |->
                          AroundEntry(actionsInWindow[i].startTime,
                                      <<actionsInWindow[i].apiName>>)],
           logs |-> [i \in 1..Len(logsInWindow) |->
                       AroundEntry(logsInWindow[i].time,
                                   logsInWindow[i].text)],
           errors |-> [i \in 1..Len(errorsInWindow) |->
                         AroundEntry(errorsInWindow[i].time,
                                     errorsInWindow[i].text)]]

\* around --time <ms> --window <ms>
CommandAround ==
  /\ pc = "built"
  /\ \E time \in AroundTimes, window \in AroundWindows :
       /\ query' = [query EXCEPT !.time = time, !.window = window]
       /\ result' = commandAround(ctx, query')
  /\ pc' = "around"
  /\ UNCHANGED <<now, shards, testTrace, errorContextFile, ctx, summaryOut,
                 issues, uniqueIssues, report>>
  /\ UNCHANGED exceptProjection

NextAround ==
  \/ Tick
  \/ RecordBrowserEvent({0}, AroundBrowserEvents)
  \/ ParseTrace
  \/ CommandAround

SpecAround == Init /\ [][NextAround]_vars

\* The entries of a result list are the signals of a context list that lie
\* within W of T, in the order of the list.
exactlyWithin(entries, signals, T, W) ==
  LET within == {i \in 1..Len(signals) :
                   distance(signals[i].time, T) <= W}
  IN /\ Len(entries) = Cardinality(within)
     /\ \A k \in 1..Len(entries) :
          \E i \in within :
            /\ Cardinality({j \in within : j <= i}) = k
            /\ entries[k].time = signals[i].time
            /\ entries[k].text = signals[i].text

\* C20: the around command returns exactly the console messages, the
\* actions (by start time), the log lines and the page errors whose time t
\* has |t - T| <= W, for the time T and the window W requested.
C20_AroundWindow ==
  (pc = "around" /\ result.error = "") =>
    LET T == Number(query.time)[1]
        W == Number(query.window)[1]
    IN /\ exactlyWithin(result.console, ctx.consoleMessages, T, W)
       /\ exactlyWithin(result.logs, ctx.logs, T, W)
       /\ exactlyWithin(result.errors, ctx.errors, T, W)
       /\ exactlyWithin(result.actions,
                        [i \in 1..Len(ctx.actions) |->
                           [time |-> ctx.actions[i].startTime,
                            text |-> <<ctx.actions[i].apiName>>]],
                        T, W)

(***************************************************************************)
(* SpecConsole: the console filter.  A page writes console messages of     *)
(* several message types.                                                  *)
(***************************************************************************)
\* A console event with its messageType.
ConsoleMessageEvent(messageType, text) ==
  [type |-> "console", time |-> NoTime, callId |-> "", apiName |-> "",
   text |-> text, url |-> NoText, messageType |-> messageType]

ConsoleBrowserEvents ==
  {ConsoleMessageEvent(t, text) :
     t \in {"log", "error"}, text \in {TextPlain, TextTimeout}}

\* The results of the console command (the location label is left out).
commandConsole(context, options) ==
  LET \* Number(options.limit) || 100
      limit == IF Number(options.limit) = <<>> \/ Number(options.limit) = <<0>>
               THEN 100 ELSE Number(options.limit)[1]
      ofType == SelectSeq(context.consoleMessages,
                          LAMBDA m : options.type # ""
                                       => m.messageType = options.type)
      matching == SelectSeq(ofType,
                            LAMBDA m : options.filter # ""
                                         => RegexTest({<<Lower(options.filter)>>},
                                                      m.text))
      \* slice(0, limit), for the limits of the model (none is negative)
      filteredMessages ==
        SubSeq(matching, 1, IF limit < Len(matching) THEN limit
                            ELSE Len(matching))
  IN [error |-> "",
      results |-> [i \in 1..Len(filteredMessages) |->
                     [timestamp |-> filteredMessages[i].time,
                      type |-> filteredMessages[i].messageType,
                      text |-> filteredMessages[i].text]]]

\* console [--type t] [--filter regex] [--limit n]: "" is an option not
\* given, "100" the default of --limit.
CommandConsole ==
  /\ pc = "built"
  /\ \E type \in {"", "error"}, regex \in {"", "Timed out"},
        limit \in {"100", "0", "1", "2"} :
       /\ query' = [query EXCEPT !.type = type, !.filter = regex,
                                 !.limit = limit]
       /\ result' = commandConsole(ctx, query')
  /\ pc' = "console"
  /\ UNCHANGED <<now, shards, testTrace, errorContextFile, ctx, summaryOut,
                 issues, uniqueIssues, report>>
  /\ UNCHANGED exceptProjection

NextConsole ==
  \/ Tick
  \/ RecordBrowserEvent({0}, ConsoleBrowserEvents)
  \/ ParseTrace
  \/ CommandConsole

SpecConsole == Init /\ [][NextConsole]_vars

\* The positions of the console messages the query asks for.
requested ==
  {i \in 1..Len(ctx.consoleMessages) :
     /\ query.type # "" => ctx.consoleMessages[i].messageType = query.type
     /\ query.filter # "" => includes(ctx.consoleMessages[i].text, query.filter)}

\* C21: the console command returns the first `limit` console messages, in
\* their original order, that have the requested message type (when one is
\* given) and whose text matches the requested filter (when one is given),
\* and never more messages than the requested limit.
C21_ConsoleFilter ==
  pc = "console" =>
    LET limit == Number(query.limit)[1]
        first == {i \in requested :
                    Cardinality({j \in requested : j <= i}) <= limit}
    IN /\ Len(result.results) <= limit
       /\ Len(result.results) = Cardinality(first)
       /\ \A k \in 1..Len(result.results) :
            \E i \in first :
              /\ Cardinality({j \in first : j <= i}) = k
              /\ result.results[k].timestamp = ctx.consoleMessages[i].time
              /\ result.results[k].type = ctx.consoleMessages[i].messageType
              /\ result.results[k].text = ctx.consoleMessages[i].text

(***************************************************************************)
(* SpecTimeline: the timeline.  A browser context writes its               *)
(* context-options line, actions, console messages and page errors.        *)
(***************************************************************************)
TimelineBrowserEvents ==
  {ContextOptionsEvent, BeforeEvent("call@1", "page.click"),
   AfterEvent("call@1", <<"boom">>), ConsoleMessageEvent("error", TextPlain),
   ConsoleMessageEvent("log", TextPlain), PageErrorEvent(NoText)}

TimelineEvent(time, type, description) ==
  [time |-> time, type |-> type, description |-> description]

\* The events of the timeline in the order they are collected.
timelineEvents(context) ==
  LET startEvent == TimelineEvent(0, "start", <<"Test started">>)
      actionEvents ==
        [i \in 1..Len(context.actions) |->
           TimelineEvent(context.actions[i].startTime, "action",
                         IF context.actions[i].error # NoText
                         THEN <<context.actions[i].apiName, "FAILED">>
                                \o context.actions[i].error
                         ELSE <<context.actions[i].apiName>>)]
      consoleErrors == SelectSeq(context.consoleMessages,
                                 LAMBDA m : m.messageType = "error")
      consoleErrorEvents ==
        [i \in 1..Len(consoleErrors) |->
           TimelineEvent(consoleErrors[i].time, "console.error",
                         consoleErrors[i].text)]
      pageErrorEvents ==
        [i \in 1..Len(context.errors) |->
           TimelineEvent(context.errors[i].time, "pageError",
                         IF context.errors[i].text = NoText
                         THEN <<"Unknown error">> ELSE context.errors[i].text)]
      endEvent == IF context.duration # 0
                  THEN <<TimelineEvent(context.duration, "end",
                                       <<"Test", context.status>>)>>
                  ELSE <<>>
  IN <<startEvent>> \o actionEvents \o consoleErrorEvents
       \o pageErrorEvents \o endEvent

\* Variant: the events stay in the order they are collected.
commandTimelineUnsorted(context) ==
  [error |-> "", events |-> timelineEvents(context)]

\* [...].sort((a, b) => a.time - b.time)
commandTimeline(context) ==
  [error |-> "", events |-> sortByTime(timelineEvents(context))]

CommandTimeline ==
  /\ pc = "built"
  /\ result' = commandTimeline(ctx)
  /\ pc' = "timeline"
  /\ UNCHANGED <<now, shards, testTrace, errorContextFile, ctx, summaryOut,
                 issues, uniqueIssues, report, query>>
  /\ UNCHANGED exceptProjection

\* The command has printed its results; the next command is given the same
\* context.
CommandReturns ==
  /\ pc \notin {"recording", "built"}
  /\ pc' = "built"
  /\ UNCHANGED <<now, shards, testTrace, errorContextFile, ctx, summaryOut,
                 issues, uniqueIssues, report>>
  /\ UNCHANGED toolVars

NextTimeline ==
  \/ Tick
  \/ RecordBrowserEvent({0}, TimelineBrowserEvents)
  \/ ParseTrace
  \/ CommandTimeline

SpecTimeline == Init /\ [][NextTimeline]_vars

\* The entries of one type, in timeline order.
entriesOf(type) == SelectSeq(result.events, LAMBDA e : e.type = type)

\* C22: the timeline holds exactly one entry per action, one per console
\* message of type error and one per page error (each with the time of its
\* signal), and its entries are in non-decreasing time order.
C22_TimelineMerge ==
  pc = "timeline" =>
    LET consoleErrors == SelectSeq(ctx.consoleMessages,
                                   LAMBDA m : m.messageType = "error")
        times(list) == [i \in 1..Len(list) |-> list[i].time]
    IN /\ Len(entriesOf("action")) = Len(ctx.actions)
       /\ Len(entriesOf("console.error")) = Len(consoleErrors)
       /\ Len(entriesOf("pageError")) = Len(ctx.errors)
       /\ \A t \in {ClockValues[k] : k \in 1..Len(ClockValues)} :
            /\ Cardinality({i \in 1..Len(ctx.actions) :
                              ctx.actions[i].startTime = t})
                 = Cardinality({i \in 1..Len(result.events) :
                                  /\ result.events[i].type = "action"
                                  /\ result.events[i].time = t})
            /\ Cardinality({i \in 1..Len(consoleErrors) :
                              consoleErrors[i].time = t})
                 = Cardinality({i \in 1..Len(result.events) :
                                  /\ result.events[i].type = "console.error"
                                  /\ result.events[i].time = t})
            /\ Cardinality({i \in 1..Len(ctx.errors) :
                              ctx.errors[i].time = t})
                 = Cardinality({i \in 1..Len(result.events) :
                                  /\ result.events[i].type = "pageError"
                                  /\ result.events[i].time = t})
       /\ \A i \in 1..Len(result.events) :
            result.events[i].type
              \in {"start", "action", "console.error", "pageError", "end"}
       /\ \A i, j \in 1..Len(result.events) :
            i < j => result.events[i].time <= result.events[j].time

\* A timeline of a page error, a later console error and a still later
\* action: the reverse of the order in which the command collects them.
C22_Witness ==
  /\ pc = "timeline"
  /\ Len(entriesOf("action")) = 1
  /\ Len(entriesOf("console.error")) = 1
  /\ Len(entriesOf("pageError")) = 1
  /\ ctx.errors[1].time < entriesOf("console.error")[1].time
  /\ entriesOf("console.error")[1].time < ctx.actions[1].startTime

(***************************************************************************)
(* SpecDuration: the duration of a test.  Two browser contexts write their *)
(* context-options line, action starts, screencast frames and console      *)
(* messages.                                                               *)
(***************************************************************************)
DurationBrowserEvents ==
  {ContextOptionsEvent, BeforeEvent("call@1", "page.click"),
   ScreencastFrameEvent, ConsoleMessageEvent("error", TextPlain)}

NextDuration ==
  \/ Tick
  \/ RecordBrowserEvent({0, 1}, DurationBrowserEvents)
  \/ ParseTrace
  \/ CommandTimeline

SpecDuration == Init /\ [][NextDuration]_vars

\* The start timestamp recorded by the context-options event, or zero.
recordedStart ==
  IF \E i \in 1..Len(browserTrace) : browserTrace[i].type = "context-options"
  THEN browserTrace[CHOOSE i \in 1..Len(browserTrace) :
                      /\ browserTrace[i].type = "context-options"
                      /\ \A j \in 1..(i - 1) :
                           browserTrace[j].type # "context-options"].time
  ELSE 0

\* C23: the duration of a built context is the timestamp of the last event
\* of the trace minus the start timestamp recorded by the context-options
\* event (zero without one), whatever the kind of the last event, and is
\* never negative.
C23_Duration ==
  (Built /\ browserTrace # <<>>) =>
    /\ ctx.duration = browserTrace[Len(browserTrace)].time - recordedStart
    /\ ctx.duration >= 0

(***************************************************************************)
(* SpecClean: diagnose on traces whose signals match no signature.  The    *)
(* page and the runner write texts outside the signature table (and one    *)
(* console message inside it); the runner may leave an error-context       *)
(* document.                                                               *)
(***************************************************************************)
NextClean ==
  \/ Tick
  \/ RecordBrowserEvent({0}, VerdictBrowserEvents
                               \cup {ConsoleEvent(TextTimeout, NoText)})
  \/ RecordRunnerEvent({StdoutEvent(TextPlain), StderrEvent(TextPlain),
                        TestErrorEvent(<<"boom">>)})
  \/ WriteErrorContext(VerdictErrorContextFiles)
  \/ ParseTrace
  \/ CommandDiagnose

SpecClean == Init /\ [][NextClean]_vars

\* No console message, page error, runner stdout/stderr line or runner error
\* matches a signature.
noEventMatches ==
  /\ \A i \in 1..Len(ctx.consoleMessages) :
       matchingSignatures(ctx.consoleMessages[i].text) = {}
  /\ \A i \in 1..Len(ctx.errors) : matchingSignatures(ctx.errors[i].text) = {}
  /\ \A i \in 1..Len(testTrace) : matchingSignatures(testTrace[i].text) = {}

cleanReport ==
  /\ report.issueCount = 0
  /\ report.issues = <<>>
  /\ report.summary.headline = "no patterns"
  /\ report.primaryDiagnosis.explanation = "no known patterns"
  /\ report.primaryDiagnosis.recommendation = "trace looks clean"

\* C24: for every trace in which no event matches a signature, diagnose
\* reports issue count 0, an empty issue list, the "No known error patterns"
\* summary and the clean primary diagnosis.
C24_NoMatchIsClean == (Diagnosed /\ noEventMatches) => cleanReport

\* C24 (amended): the same, for traces that have no error-context document
\* with error details.
C24_NoMatchNoDocumentIsClean ==
  (Diagnosed /\ noEventMatches /\ loadErrorContext(errorContextFile) = <<>>)
    => cleanReport

\* Diagnose on a trace with a console message, a page error and a runner
\* line, none of which matches a signature, and no error details.
C24_Witness ==
  /\ Diagnosed
  /\ noEventMatches
  /\ loadErrorContext(errorContextFile) = <<>>
  /\ ctx.consoleMessages # <<>>
  /\ ctx.errors # <<>>
  /\ testTrace # <<>>

(***************************************************************************)
(* SpecViews: several report commands, one after another, on one built     *)
(* context.  Two pages write screencast frames and console errors; the     *)
(* runner may leave an error-context document.                             *)
(***************************************************************************)
ViewsBrowserEvents ==
  {ScreencastFrameEvent, ConsoleMessageEvent("error", TextTimeout)}

\* The results of the screenshots command: the sorted copy of the list.
commandScreenshots(context) ==
  LET sorted == sortByTime(context.screenshots) IN
  [error |-> "",
   results |-> [i \in 1..Len(sorted) |->
                  [index |-> i - 1, timestamp |-> sorted[i].time]]]

\* Variant: the command sorts the screenshots of the context in place.
CommandScreenshotsInPlace ==
  /\ pc = "built"
  /\ result' = commandScreenshots(ctx)
  /\ ctx' = [ctx EXCEPT !.screenshots = sortByTime(@)]
  /\ pc' = "screenshots"
  /\ UNCHANGED <<now, shards, testTrace, errorContextFile, summaryOut,
                 issues, uniqueIssues, report, query>>
  /\ UNCHANGED exceptProjection

\* screenshots: [...ctx.screenshots].sort(...) leaves the context's list as
\* it is.
CommandScreenshots ==
  /\ pc = "built"
  /\ result' = commandScreenshots(ctx)
  /\ ctx' = ctx
  /\ pc' = "screenshots"
  /\ UNCHANGED <<now, shards, testTrace, errorContextFile, summaryOut,
                 issues, uniqueIssues, report, query>>
  /\ UNCHANGED exceptProjection

NextViews ==
  \/ Tick
  \/ RecordBrowserEvent({0, 1}, ViewsBrowserEvents)
  \/ WriteErrorContext({ErrorContextFile(TRUE, NoText)})
  \/ ParseTrace
  \/ CommandSummary
  \/ CommandDiagnose
  \/ CommandScreenshots
  \/ CommandTimeline
  \/ CommandReturns

SpecViews == Init /\ [][NextViews]_vars

\* The context as parseTrace builds it from the trace files.
builtContext == parseTrace(testTrace, browserTrace)

\* The report of diagnose on the trace files.
diagnosed(verbose) ==
  diagnoseResults(
    deduplicate(<<>>, sortByTimestamp(foundIssues(builtContext, testTrace,
                                                  errorContextFile))),
    verbose)

\* Every result at hand is the one its command gives on the context as it
\* was built.
resultsAsOnBuiltContext ==
  /\ summaryOut # NoSummary
       => summaryOut = commandSummary(builtContext, errorContextFile)
  /\ pc = "diagnose" => report = diagnosed(FALSE)
  /\ pc = "diagnose-verbose" => report = diagnosed(TRUE)
  /\ report # NoReport => report \in {diagnosed(FALSE), diagnosed(TRUE)}
  /\ pc = "screenshots" => result = commandScreenshots(builtContext)
  /\ pc = "timeline" => result = commandTimeline(builtContext)

endStatus == entriesOf("end")[1].description[2]

\* C27: the status shown by summary and the status named in the end entry
\* of the timeline of the same trace are the same, and both are failed
\* whenever an error-context document exists.
C27_ViewsAgreeOnVerdict ==
  (pc = "timeline" /\ summaryOut # NoSummary /\ entriesOf("end") # <<>>) =>
    /\ summaryOut.status = endStatus
    /\ errorContextFile.exists =>
         (summaryOut.status = "failed" /\ endStatus = "failed")

\* C28: in every timeline the test-start entry is the first entry and the
\* test-end entry, when present, is the last, so that every action,
\* console-error and page-error entry lies between them.
C28_StartFirstEndLast ==
  pc = "timeline" =>
    LET n == Len(result.events) IN
    /\ result.events[1].type = "start"
    /\ \A i \in 1..n : result.events[i].type = "end" => i = n

(***************************************************************************)
(* SpecAwait: one process of `lambda await <pane> [pattern] [--long]`.     *)
(* The pane's output is a sequence of lines; at every capture the pane     *)
(* shows one of a few outputs or cannot be captured, and its current       *)
(* command is a shell or not.                                              *)
(***************************************************************************)
POLL_INTERVAL_MS == 1000
INTERNAL_TIMEOUT_MS == 540000

AGENT_PANES == {"john", "sam", "james"}

\* What `tmux capture-pane` may print for the pane.
PaneOutputs ==
  {<<"compiling">>, <<"compiling", "testing">>, <<"compiling", "done">>}

getIdleThresholdMs(pane, long) ==
  IF pane \in AGENT_PANES THEN (IF long THEN 5000 ELSE 3000)
  ELSE IF long THEN 60000
  ELSE 15000

\* regex && regex.test(output), for a pattern that is a literal line.
patternMatched(pattern, output) == pattern # "" /\ includes(output, pattern)

\* process.exit(code) after the header line printed to stdout.
AwaitExit(proc, header, code) ==
  [proc EXCEPT !.pc = "exited", !.stdout = header, !.exitCode = code]

\* The checks on a captured output that end the process with exit 0:
\* pattern matched, then shell idle.
awaitDone(proc) ==
  IF proc.capture = "failed" THEN AwaitExit(proc, "", 1)
  ELSE IF patternMatched(proc.pattern, proc.output)
  THEN AwaitExit(proc, "DONE (pattern matched)", 0)
  ELSE IF proc.shellIdle THEN AwaitExit(proc, "DONE (shell idle)", 0)
  ELSE proc

\* Variant: the idle count is never reset.
awaitIdleNeverReset(proc) ==
  LET idleMs == proc.idleMs + POLL_INTERVAL_MS IN
  IF idleMs >= getIdleThresholdMs(proc.pane, proc.long)
  THEN AwaitExit([proc EXCEPT !.idleMs = idleMs], "DONE (idle)", 0)
  ELSE [proc EXCEPT !.idleMs = idleMs, !.lastOutput = proc.output]

\* Idle detection of the poll loop (output unchanged).
awaitIdle(proc) ==
  IF proc.output = proc.lastOutput
  THEN LET idleMs == proc.idleMs + POLL_INTERVAL_MS IN
       IF idleMs >= getIdleThresholdMs(proc.pane, proc.long)
       THEN AwaitExit([proc EXCEPT !.idleMs = idleMs], "DONE (idle)", 0)
       ELSE [proc EXCEPT !.idleMs = idleMs]
  ELSE [proc EXCEPT !.idleMs = 0, !.lastOutput = proc.output]

\* The shell starts the command; buildRegex ends it on a pattern that is
\* not a regular expression.
RunAwait(panes, patterns) ==
  /\ awaiting.pc = "shell"
  /\ \E pane \in panes, pattern \in patterns, long \in BOOLEAN :
       LET proc == [awaiting EXCEPT !.pane = pane, !.pattern = pattern,
                                    !.long = long]
       IN awaiting' = IF RegExpThrows(pattern) THEN AwaitExit(proc, "", 1)
                      ELSE [proc EXCEPT !.pc = "peek"]
  /\ UNCHANGED exceptAwait

\* What the process sees of the pane at a capture ("failed": the capture
\* threw or ended the process).
Capture(proc, outputs) ==
  {[proc EXCEPT !.capture = "failed", !.output = <<>>, !.shellIdle = FALSE]}
  \cup {[proc EXCEPT !.capture = "ok", !.output = o, !.shellIdle = idle] :
          o \in outputs, idle \in BOOLEAN}

\* Phase 1: sleep one second, capture, check.
AwaitPeek ==
  /\ awaiting.pc = "peek"
  /\ \E seen \in Capture(awaiting, PaneOutputs) :
       awaiting' =
         IF awaitDone(seen).pc = "exited" THEN awaitDone(seen)
         ELSE [seen EXCEPT !.pc = "poll", !.lastOutput = seen.output,
                           !.elapsed = 1000, !.idleMs = 0]
  /\ UNCHANGED exceptAwait

\* Phase 2: one turn of the poll loop.
AwaitPoll ==
  /\ awaiting.pc = "poll"
  /\ awaiting.elapsed < INTERNAL_TIMEOUT_MS
  /\ \E seen \in Capture([awaiting EXCEPT
                             !.elapsed = @ + POLL_INTERVAL_MS], PaneOutputs) :
       awaiting' = IF awaitDone(seen).pc = "exited" THEN awaitDone(seen)
                   ELSE awaitIdle(seen)
  /\ UNCHANGED exceptAwait

\* The loop has ended: a last capture, then exit 2.  A capture that fails
\* here ends the process with exit 1.
AwaitTimeout ==
  /\ awaiting.pc = "poll"
  /\ awaiting.elapsed >= INTERNAL_TIMEOUT_MS
  /\ \E finalCaptured \in BOOLEAN :
       awaiting' =
         IF finalCaptured THEN AwaitExit(awaiting, "TIMEOUT", 2)
         ELSE AwaitExit([awaiting EXCEPT !.capture = "failed"], "", 1)
  /\ UNCHANGED exceptAwait

NextAwait ==
  \/ RunAwait({"john", "main"}, {"", "done", "("})
  \/ AwaitPeek
  \/ AwaitPoll
  \/ AwaitTimeout

SpecAwait == Init /\ [][NextAwait]_vars

\* A done condition holds of what the process saw at its last capture.
doneObserved ==
  /\ awaiting.capture = "ok"
  /\ \/ patternMatched(awaiting.pattern, awaiting.output)
     \/ awaiting.shellIdle
     \/ awaiting.idleMs >= getIdleThresholdMs(awaiting.pane, awaiting.long)

\* One second of polling passes at every step of a running process, and
\* the idle time counts the seconds since the output last changed.
awaitProgress ==
  awaiting.pc \in {"peek", "poll"} =>
    \/ awaiting'.pc = "exited"
    \/ /\ awaiting'.pc = "poll"
       /\ awaiting'.elapsed = awaiting.elapsed + POLL_INTERVAL_MS
       /\ awaiting'.elapsed <= INTERNAL_TIMEOUT_MS
       /\ awaiting.pc = "poll" =>
            awaiting'.idleMs = IF awaiting'.output = awaiting.lastOutput
                               THEN awaiting.idleMs + POLL_INTERVAL_MS
                               ELSE 0

\* The outcomes other than exit 1.
awaitOutcomes ==
  /\ awaiting.pc \in {"peek", "poll"} => ENABLED NextAwait
  /\ awaiting.pc = "poll" => ~doneObserved
  /\ awaiting.elapsed <= 540 * POLL_INTERVAL_MS
  /\ awaiting.pc = "exited" =>
       /\ awaiting.exitCode \in {0, 1, 2}
       /\ awaiting.exitCode = 0 <=> doneObserved
       /\ awaiting.exitCode = 2 =>
            awaiting.elapsed = INTERNAL_TIMEOUT_MS /\ awaiting.stdout = "TIMEOUT"

\* C26: `lambda await` ends after at most 540 one-second polls with exit 0
\* when done (pattern matched, shell idle or output unchanged for the idle
\* threshold), exit 1 on error (the pane capture failed) or exit 2 on the
\* internal timeout, and never with exit 2 when a done condition was seen
\* at a poll.
C26_AwaitOutcomes ==
  /\ [][awaitProgress]_vars
  /\ [](awaitOutcomes)
  /\ [](awaiting.pc = "exited" =>
          (awaiting.exitCode = 1 <=> awaiting.capture = "failed"))

\* C26 (amended): the same, with exit 1 on a pattern that is not a regular
\* expression as well as on a failed pane capture.
C26_AwaitOutcomesOrInvalidPattern ==
  /\ [][awaitProgress]_vars
  /\ [](awaitOutcomes)
  /\ [](awaiting.pc = "exited" =>
          (awaiting.exitCode = 1
             <=> (\/ RegExpThrows(awaiting.pattern)
                  \/ awaiting.capture = "failed")))

\* The internal timeout: 540 polls of a pane that kept running and printing.
C26_Witness ==
  /\ awaiting.pc = "exited"
  /\ awaiting.exitCode = 2
  /\ awaiting.elapsed = INTERNAL_TIMEOUT_MS
  /\ awaiting.pattern = "done"

(***************************************************************************)
(* SpecWait: `lambda tmux <pane> wait [pattern]` called again and again    *)
(* with the same arguments, with `lambda tmux <pane> <text>` in between.   *)
(* A receipt is a file of the receipt directory: it exists or not, and has *)
(* a modification time.                                                    *)
(***************************************************************************)
MaxCalls == 3

RECEIPT_EXPIRY_MS == 120000

NoReceipt == [exists |-> FALSE, mtimeMs |-> 0]

\* fs.writeFileSync(path, Date.nowMs().toString())
createReceipt(nowMs) == [exists |-> TRUE, mtimeMs |-> nowMs]

\* Variant: a receipt expires at the age of two minutes.
hasValidReceiptStrict(receipt, nowMs) ==
  receipt.exists /\ ~(nowMs - receipt.mtimeMs >= RECEIPT_EXPIRY_MS)

\* The value returned by hasValidReceipt and hasSendReceipt.
hasValidReceipt(receipt, nowMs) ==
  receipt.exists /\ ~(nowMs - receipt.mtimeMs > RECEIPT_EXPIRY_MS)

\* The file after hasValidReceipt or hasSendReceipt: unlinked when expired.
checkedReceipt(receipt, nowMs) ==
  IF hasValidReceipt(receipt, nowMs) THEN receipt ELSE NoReceipt

\* process.exit(code) after the header line printed to stdout; the header
\* is appended to the outcomes of the calls so far.
WaitExit(proc, header, code) ==
  [proc EXCEPT !.pc = "exited", !.stdout = header, !.exitCode = code,
               !.outcomes = Append(@, header)]

\* The shell starts `wait` some time after the last command ended.  The
\* send receipt is checked and deleted, the receipt of (pattern, pane) is
\* checked, and the call peeks or blocks; a blocking call builds the regex
\* first and ends on a pattern that is not a regular expression.
RunWaitCommand(patterns, timeouts, idles, delays) ==
  /\ waiting.pc \in {"shell", "exited"}
  /\ waiting.calls < MaxCalls
  /\ \E pattern \in patterns, timeoutSec \in timeouts, idleSec \in idles,
        delay \in delays :
       LET nowMs == wallClock + delay
           sendReceiptValid == hasValidReceipt(receipts.send, nowMs)
           receiptValid == hasValidReceipt(receipts.wait, nowMs)
           proc == [waiting EXCEPT
                      !.calls = @ + 1, !.pattern = pattern,
                      !.timeoutSec = timeoutSec, !.idleSec = idleSec,
                      !.elapsed = 0, !.idleCount = 0, !.lastOutput = <<>>,
                      !.capture = "none", !.stdout = "", !.exitCode = 0]
       IN /\ waiting.calls > 0 => pattern = waiting.pattern
          /\ wallClock' = nowMs
          /\ receipts' = [wait |-> checkedReceipt(receipts.wait, nowMs),
                          send |-> NoReceipt]
          /\ waiting' =
               IF ~receiptValid /\ ~sendReceiptValid
               THEN [proc EXCEPT !.pc = "peek", !.mode = "peek"]
               ELSE IF RegExpThrows(pattern)
               THEN WaitExit([proc EXCEPT !.mode = "block"], "", 1)
               ELSE [proc EXCEPT !.pc = "block", !.mode = "block"]
  /\ UNCHANGED exceptWait

\* runPeek: sleep one second, capture, create the receipt, print.
RunPeek ==
  /\ waiting.pc = "peek"
  /\ wallClock' = wallClock + 1000
  /\ \E captured \in BOOLEAN :
       IF captured
       THEN /\ receipts' = [receipts EXCEPT !.wait = createReceipt(wallClock')]
            /\ waiting' = WaitExit([waiting EXCEPT !.capture = "ok"], "PEEK", 0)
       ELSE /\ receipts' = receipts
            /\ waiting' = WaitExit([waiting EXCEPT !.capture = "failed"], "", 1)
  /\ UNCHANGED exceptWait

\* runWait: one turn of the poll loop.
WaitPoll ==
  /\ waiting.pc = "block"
  /\ waiting.elapsed < waiting.timeoutSec * 1000
  /\ \E captured \in BOOLEAN, output \in PaneOutputs, shellIdle \in BOOLEAN :
       LET seen == [waiting EXCEPT !.capture = "ok"]
           idleCount == waiting.idleCount + POLL_INTERVAL_MS
           completed(header) ==
             /\ receipts' = [receipts EXCEPT !.wait = NoReceipt]
             /\ waiting' = WaitExit(seen, header, 0)
             /\ wallClock' = wallClock
           sleeps(proc) ==
             /\ receipts' = receipts
             /\ waiting' = [proc EXCEPT !.elapsed = @ + POLL_INTERVAL_MS]
             /\ wallClock' = wallClock + POLL_INTERVAL_MS
       IN IF ~captured
          THEN /\ receipts' = receipts
               /\ waiting' =
                    WaitExit([waiting EXCEPT !.capture = "failed"], "", 1)
               /\ wallClock' = wallClock
          ELSE IF patternMatched(waiting.pattern, output)
          THEN completed("COMPLETED (found pattern)")
          ELSE IF shellIdle
          THEN completed("COMPLETED (command exited)")
          ELSE IF output = waiting.lastOutput
          THEN IF idleCount >= waiting.idleSec * 1000
               THEN completed("IDLE")
               ELSE sleeps([seen EXCEPT !.idleCount = idleCount])
          ELSE sleeps([seen EXCEPT !.idleCount = 0, !.lastOutput = output])
  /\ UNCHANGED exceptWait

\* runWait after the loop: the receipt is written again, then the header,
\* a last capture and exit 1.
WaitTimeout ==
  /\ waiting.pc = "block"
  /\ waiting.elapsed >= waiting.timeoutSec * 1000
  /\ receipts' = [receipts EXCEPT !.wait = createReceipt(wallClock)]
  /\ \E finalCaptured \in BOOLEAN :
       waiting' = WaitExit([waiting EXCEPT
                              !.capture = IF finalCaptured THEN "ok"
                                          ELSE "failed"],
                           "STILL RUNNING", 1)
  /\ UNCHANGED <<exceptWait, wallClock>>

\* sendText: the receipts of the pane are cleared, and half a second later
\* the send receipt is created.
SendText ==
  /\ waiting.pc \in {"shell", "exited"}
  /\ waiting.calls < MaxCalls
  /\ waiting' = [waiting EXCEPT !.pc = "shell", !.calls = @ + 1,
                                !.outcomes = Append(@, "SENT")]
  /\ wallClock' = wallClock + 500
  /\ receipts' = [wait |-> NoReceipt, send |-> createReceipt(wallClock')]
  /\ UNCHANGED exceptWait

WaitDelays == {1000, RECEIPT_EXPIRY_MS, RECEIPT_EXPIRY_MS + 1}

NextWait ==
  \/ RunWaitCommand({"done", "("}, {0, 2}, {1}, WaitDelays)
  \/ RunPeek
  \/ WaitPoll
  \/ WaitTimeout
  \/ SendText

SpecWait == Init /\ [][NextWait]_vars

\* A receipt that exists and is at most two minutes old.
withinExpiry(receipt, nowMs) ==
  receipt.exists /\ nowMs - receipt.mtimeMs <= RECEIPT_EXPIRY_MS

WaitCompleted ==
  {"COMPLETED (found pattern)", "COMPLETED (command exited)", "IDLE"}

\* The choice between peeking and blocking at the start of a call, and what
\* the start leaves of the receipts.
waitModeChosen ==
  (waiting'.calls = waiting.calls + 1 /\ waiting'.pc # "shell") =>
    /\ waiting'.mode = "peek" <=>
         /\ ~withinExpiry(receipts.wait, wallClock')
         /\ ~withinExpiry(receipts.send, wallClock')
    /\ waiting'.mode = "peek" => waiting'.pc = "peek"
    /\ receipts'.wait =
         IF withinExpiry(receipts.wait, wallClock') THEN receipts.wait
         ELSE NoReceipt
    /\ ~receipts'.send.exists

\* A peek is one step and creates the receipt.
peekAlwaysCreatesReceipt ==
  waiting.pc = "peek" =>
    /\ waiting'.pc = "exited"
    /\ wallClock' = wallClock + 1000
    /\ waiting'.stdout = "PEEK" /\ waiting'.exitCode = 0
    /\ receipts'.wait = [exists |-> TRUE, mtimeMs |-> wallClock']

\* A peek is one step; a peek that captured the pane creates the receipt.
peekCreatesReceipt ==
  waiting.pc = "peek" =>
    /\ waiting'.pc = "exited"
    /\ wallClock' = wallClock + 1000
    /\ waiting'.capture = "ok" =>
         /\ waiting'.stdout = "PEEK" /\ waiting'.exitCode = 0
         /\ receipts'.wait = [exists |-> TRUE, mtimeMs |-> wallClock']

\* What the end of a blocking call does to the receipt.
blockEnds ==
  (waiting.pc = "block" /\ waiting'.pc = "exited") =>
    /\ waiting'.stdout \in WaitCompleted =>
         ~receipts'.wait.exists /\ waiting'.exitCode = 0
    /\ waiting'.stdout = "STILL RUNNING" =>
         /\ receipts'.wait = [exists |-> TRUE, mtimeMs |-> wallClock']
         /\ waiting'.exitCode = 1
         /\ waiting.elapsed = waiting.timeoutSec * 1000

\* Between two calls the receipt is as the last call left it.
receiptAfterCall ==
  waiting.pc = "exited" =>
    /\ waiting.stdout \in WaitCompleted => ~receipts.wait.exists
    /\ waiting.stdout \in {"PEEK", "STILL RUNNING"} =>
         receipts.wait = [exists |-> TRUE, mtimeMs |-> wallClock]

\* C29: for a fixed (pattern, pane), a call of `wait` with no valid receipt
\* and no send receipt only peeks and creates the receipt; a call within the
\* two-minute expiry of the receipt blocks; a blocking call that completes
\* (pattern found, command exited, idle) deletes the receipt, one that times
\* out keeps it; an expired receipt is treated as absent.
C29_PeekThenBlock ==
  /\ [][waitModeChosen /\ peekAlwaysCreatesReceipt /\ blockEnds]_vars
  /\ [](receiptAfterCall)

\* A call ended by an error leaves the receipts as they were when it
\* started: a peek whose capture failed creates none.
errorKeepsReceipts ==
  (waiting'.pc = "exited" /\ waiting'.stdout = "") =>
    /\ waiting'.exitCode = 1
    /\ waiting'.capture = "failed" \/ RegExpThrows(waiting'.pattern)
    /\ waiting.pc \in {"peek", "block"} => receipts' = receipts

\* C29 (amended): the protocol of C29, where a peek creates the receipt
\* only when it captured the pane, and a call may also end with an error
\* (the pane capture failed, or the pattern of a blocking call is not a
\* regular expression): such a call exits 1 and neither creates nor deletes
\* a receipt.
C29_PeekThenBlockOrError ==
  /\ [][waitModeChosen /\ peekCreatesReceipt /\ blockEnds
        /\ errorKeepsReceipts]_vars
  /\ [](receiptAfterCall)
  /\ [](waiting.pc = "exited" =>
          waiting.stdout \in WaitCompleted \cup {"PEEK", "STILL RUNNING", ""})

\* Three calls: a peek, a blocking call that timed out, and a blocking call
\* that completed and deleted the receipt.
C29_Witness ==
  /\ waiting.pc = "exited"
  /\ Len(waiting.outcomes) = 3
  /\ waiting.outcomes[1] = "PEEK"
  /\ waiting.outcomes[2] = "STILL RUNNING"
  /\ waiting.outcomes[3] \in WaitCompleted
  /\ ~receipts.wait.exists

(***************************************************************************)
(* SpecShip: the task lines of TASKS.md are written, then `lambda tasks    *)
(* next` selects a task.  A task is a matching line of the file: its line  *)
(* number, its status and the width of its indentation.                    *)
(***************************************************************************)
MaxTasks == 4

Task(line, status, indent) ==
  [line |-> line, status |-> status, indent |-> indent]

\* The null returned when no task is available.
NoTask == Task(0, "", 0)

TaskIndents == {0, 2}

\* The tasks after tasks[i] up to the next one indented no deeper.
childrenOf(list, i) ==
  LET ends == {j \in (i + 1)..Len(list) : list[j].indent <= list[i].indent}
      last == IF ends = {} THEN Len(list)
              ELSE (CHOOSE j \in ends : \A k \in ends : j <= k) - 1
  IN SubSeq(list, i + 1, last)

\* Array.prototype.find with the callback c => c.status === "todo".
findTodo(children) ==
  LET todo == {j \in 1..Len(children) : children[j].status = "todo"}
  IN IF todo = {} THEN NoTask
     ELSE children[CHOOSE j \in todo : \A k \in todo : j <= k]

RECURSIVE findNextTaskFrom(_, _)
\* The loop of findNextTask from index i on.
findNextTaskFrom(list, i) ==
  IF i > Len(list) THEN NoTask
  ELSE LET task == list[i]
           children == childrenOf(list, i)
           nextChild == findTodo(children)
           allChildrenDone ==
             \A j \in 1..Len(children) : children[j].status = "done"
       IN IF task.indent > 0 THEN findNextTaskFrom(list, i + 1)
          ELSE IF task.status = "done" THEN findNextTaskFrom(list, i + 1)
          ELSE IF task.status = "blocked" THEN findNextTaskFrom(list, i + 1)
          ELSE IF Len(children) = 0 THEN task
          ELSE IF nextChild # NoTask THEN nextChild
          ELSE IF allChildrenDone /\ task.status = "todo" THEN task
          ELSE findNextTaskFrom(list, i + 1)

findNextTask(list) == findNextTaskFrom(list, 1)

\* A task line is appended to TASKS.md.
WriteTask(statuses, indents) ==
  /\ ship.pc = "editing"
  /\ Len(tasks) < MaxTasks
  /\ \E status \in statuses, indent \in indents :
       tasks' = Append(tasks, Task(Len(tasks) + 1, status, indent))
  /\ UNCHANGED <<ship, exceptShip>>

\* `lambda tasks next`
TasksNext ==
  /\ ship.pc = "editing"
  /\ ship' = [pc |-> "next", next |-> findNextTask(tasks)]
  /\ UNCHANGED <<tasks, exceptShip>>

NextShip ==
  \/ WriteTask({"todo", "done", "blocked"}, TaskIndents)
  \/ TasksNext

SpecShip == Init /\ [][NextShip]_vars

\* The parent of the task of line i: the nearest task above it that is
\* indented less (0: none).
parentLine(i) ==
  LET above == {j \in 1..(i - 1) : tasks[j].indent < tasks[i].indent}
  IN IF above = {} THEN 0 ELSE CHOOSE j \in above : \A k \in above : k <= j

\* The lines of the children of the task of line i.
childLines(i) == {j \in 1..Len(tasks) : j # i /\ parentLine(j) = i}

\* A top-level task that `tasks next` may return.
available(i) ==
  /\ tasks[i].indent = 0
  /\ tasks[i].status = "todo"
  /\ \A j \in childLines(i) : tasks[j].status = "done"

\* The task returned is sequential within its parent.
sequentialChild(i) ==
  /\ parentLine(i) # 0
  /\ tasks[parentLine(i)].status = "todo"
  /\ \A j \in childLines(parentLine(i)) : j < i => tasks[j].status = "done"

\* C30: the task returned by `tasks next` is never done or blocked; a child
\* is returned only when every earlier child of its parent is done, a parent
\* with children only when all its children are done, and blocked top-level
\* tasks are skipped: an available top-level task is never passed over for
\* a later task, and nothing is returned only when none is available.
C30_TaskSelection ==
  ship.pc = "next" =>
    LET next == ship.next IN
    IF next = NoTask
    THEN \A i \in 1..Len(tasks) : ~available(i)
    ELSE /\ next = tasks[next.line]
         /\ next.status = "todo"
         /\ next.indent = 0 => available(next.line)
         /\ next.indent > 0 => sequentialChild(next.line)
         /\ \A i \in 1..Len(tasks) :
              (available(i) /\ tasks[i].indent = 0) =>
                (next.indent = 0 => next.line <= i)

====
